---- MODULE Spec2Model ----
(***************************************************************************)
(* Model of the marketing CLI tools (tools/clis/*.js): one process run of  *)
(* one tool.  A run is: credential gate, parseArgs(process.argv.slice(2)), *)
(* destructuring of args._, main() (command dispatch, request building),   *)
(* fetch round trips, console.log of the result.                           *)
(*                                                                         *)
(* A command-line token is a JavaScript string, modelled as the sequence   *)
(* of its characters, so that startsWith('--'), slice(2) and iteration     *)
(* over a string are computed and not assumed.                             *)
(***************************************************************************)
EXTENDS Integers, Sequences, FiniteSets, TLC

VARIABLES tool, env, argv, pc, args, cmd, sub, rest, stdout, stderr,
          exitCode, net, cachedToken, pending, steps, now, resps

vars == <<tool, env, argv, pc, args, cmd, sub, rest, stdout, stderr,
          exitCode, net, cachedToken, pending, steps, now, resps>>

(***************************************************************************)
(* Bounds                                                                  *)
(***************************************************************************)
\* longest argv of a parser run
MaxLen == 3
\* longest argv of a tool run
MaxArgs == 7

(***************************************************************************)
(* Words: the JavaScript string literals of the sources, as characters     *)
(***************************************************************************)
DD == <<"-", "-">>
EmptyStr == <<>>
\* the command names, subcommand names and flag names of the tools, and the
\* other tokens of the runs, as sequences of characters
W ==
  [us |-> <<"_">>,
   set |-> <<"s", "e", "t">>,
   distinct_id |-> <<"d", "i", "s", "t", "i", "n", "c", "t", "-", "i", "d">>,
   properties |-> <<"p", "r", "o", "p", "e", "r", "t", "i", "e", "s">>,
   obj |-> <<"{", "}">>,
   lists |-> <<"l", "i", "s", "t", "s">>,
   add_profiles |-> <<"a", "d", "d", "-", "p", "r", "o", "f", "i", "l", "e", "s">>,
   a_b |-> <<"a", ",", "b">>,
   project_id |-> <<"p", "r", "o", "j", "e", "c", "t", "-", "i", "d">>,
   event |-> <<"e", "v", "e", "n", "t">>,
   a |-> <<"a">>,
   b |-> <<"b">>,
   x |-> <<"x">>,
   y |-> <<"y">>,
   id |-> <<"i", "d">>,
   to |-> <<"t", "o">>,
   dry_run |-> <<"d", "r", "y", "-", "r", "u", "n">>,
   profiles |-> <<"p", "r", "o", "f", "i", "l", "e", "s">>,
   list |-> <<"l", "i", "s", "t">>,
   get |-> <<"g", "e", "t">>,
   bogus |-> <<"b", "o", "g", "u", "s">>,
   create |-> <<"c", "r", "e", "a", "t", "e">>,
   filter |-> <<"f", "i", "l", "t", "e", "r">>,
   sort |-> <<"s", "o", "r", "t">>,
   page_size |-> <<"p", "a", "g", "e", "-", "s", "i", "z", "e">>,
   page_cursor |-> <<"p", "a", "g", "e", "-", "c", "u", "r", "s", "o", "r">>,
   email |-> <<"e", "m", "a", "i", "l">>,
   first_name |-> <<"f", "i", "r", "s", "t", "-", "n", "a", "m", "e">>,
   last_name |-> <<"l", "a", "s", "t", "-", "n", "a", "m", "e">>,
   phone |-> <<"p", "h", "o", "n", "e">>,
   ping |-> <<"p", "i", "n", "g">>,
   events |-> <<"e", "v", "e", "n", "t", "s">>,
   sites |-> <<"s", "i", "t", "e", "s">>,
   surveys |-> <<"s", "u", "r", "v", "e", "y", "s">>,
   site_id |-> <<"s", "i", "t", "e", "-", "i", "d">>,
   reviews |-> <<"r", "e", "v", "i", "e", "w", "s">>,
   private |-> <<"p", "r", "i", "v", "a", "t", "e">>,
   latest |-> <<"l", "a", "t", "e", "s", "t">>,
   business |-> <<"b", "u", "s", "i", "n", "e", "s", "s">>,
   search |-> <<"s", "e", "a", "r", "c", "h">>,
   query |-> <<"q", "u", "e", "r", "y">>,
   business_unit |-> <<"b", "u", "s", "i", "n", "e", "s", "s", "-", "u", "n", "i", "t">>,
   limit |-> <<"l", "i", "m", "i", "t">>,
   stars |-> <<"s", "t", "a", "r", "s">>,
   cursor |-> <<"c", "u", "r", "s", "o", "r">>,
   survey_id |-> <<"s", "u", "r", "v", "e", "y", "-", "i", "d">>,
   responses |-> <<"r", "e", "s", "p", "o", "n", "s", "e", "s">>,
   subscribers |-> <<"s", "u", "b", "s", "c", "r", "i", "b", "e", "r", "s">>,
   forms |-> <<"f", "o", "r", "m", "s">>,
   page |-> <<"p", "a", "g", "e">>,
   funnels |-> <<"f", "u", "n", "n", "e", "l", "s">>,
   funnel_id |-> <<"f", "u", "n", "n", "e", "l", "-", "i", "d">>,
   from_date |-> <<"f", "r", "o", "m", "-", "d", "a", "t", "e">>,
   to_date |-> <<"t", "o", "-", "d", "a", "t", "e">>,
   updates |-> <<"u", "p", "d", "a", "t", "e", "s">>,
   profile_ids |-> <<"p", "r", "o", "f", "i", "l", "e", "-", "i", "d", "s">>,
   text |-> <<"t", "e", "x", "t">>,
   info |-> <<"i", "n", "f", "o">>,
   scheduled_at |-> <<"s", "c", "h", "e", "d", "u", "l", "e", "d", "-", "a", "t">>,
   now |-> <<"n", "o", "w">>,
   top |-> <<"t", "o", "p">>,
   shorten |-> <<"s", "h", "o", "r", "t", "e", "n">>,
   accounts |-> <<"a", "c", "c", "o", "u", "n", "t", "s">>,
   campaigns |-> <<"c", "a", "m", "p", "a", "i", "g", "n", "s">>,
   account_id |-> <<"a", "c", "c", "o", "u", "n", "t", "-", "i", "d">>,
   send |-> <<"s", "e", "n", "d">>,
   from |-> <<"f", "r", "o", "m">>,
   subject |-> <<"s", "u", "b", "j", "e", "c", "t">>,
   html |-> <<"h", "t", "m", "l">>,
   template_id |-> <<"t", "e", "m", "p", "l", "a", "t", "e", "-", "i", "d">>,
   template_data |-> <<"t", "e", "m", "p", "l", "a", "t", "e", "-", "d", "a", "t", "a">>,
   cc |-> <<"c", "c">>,
   bcc |-> <<"b", "c", "c">>,
   reply_to |-> <<"r", "e", "p", "l", "y", "-", "t", "o">>,
   validate |-> <<"v", "a", "l", "i", "d", "a", "t", "e">>,
   domain |-> <<"d", "o", "m", "a", "i", "n">>,
   overview |-> <<"o", "v", "e", "r", "v", "i", "e", "w">>,
   account |-> <<"a", "c", "c", "o", "u", "n", "t">>,
   pause |-> <<"p", "a", "u", "s", "e">>,
   stats |-> <<"s", "t", "a", "t", "s">>,
   realtime |-> <<"r", "e", "a", "l", "t", "i", "m", "e">>,
   ERROR |-> <<"E", "R", "R", "O", "R">>]

\* the token --<w>
Flag(w) == DD \o w

(***************************************************************************)
(* JavaScript values held by the parsed-arguments object                   *)
(***************************************************************************)
JsTrue == [t |-> "bool", v |-> <<>>]
JsStr(s) == [t |-> "str", v |-> s]
JsArr(a) == [t |-> "arr", v |-> a]
JsUndef == [t |-> "undef", v |-> <<>>]

\* String.prototype.startsWith('--')
startsWith(s) == Len(s) >= 2 /\ s[1] = "-" /\ s[2] = "-"

\* String.prototype.slice(2)
slice(s) == SubSeq(s, 3, Len(s))

\* result[key] = val
SetProp(obj, key, val) ==
  [k \in (DOMAIN obj) \cup {key} |-> IF k = key THEN val ELSE obj[k]]

\* obj[key], undefined when the object has no such property
GetProp(obj, key) == IF key \in DOMAIN obj THEN obj[key] ELSE JsUndef

\* JavaScript truthiness of a value of the parsed-arguments object
Truthy(val) ==
  \/ val.t = "bool"
  \/ val.t = "arr"
  \/ val.t = "str" /\ val.v # EmptyStr

(***************************************************************************)
(* parseArgs (klaviyo.js:35-53, the same text in every tool).  The loop    *)
(* over i; the outcome is the returned object, or threw = TRUE when        *)
(* result._.push(arg) is called while result._ is no longer an array       *)
(* (TypeError: result._.push is not a function).                           *)
(***************************************************************************)
RECURSIVE parseArgsLoop(_, _, _)
parseArgsLoop(a, i, result) ==
  IF i > Len(a) THEN [threw |-> FALSE, obj |-> result]
  ELSE
    LET arg == a[i] IN
    IF startsWith(arg) THEN
      LET key == slice(arg)
          hasNext == i + 1 <= Len(a)
      IN IF hasNext /\ a[i + 1] # EmptyStr /\ ~startsWith(a[i + 1])
           THEN parseArgsLoop(a, i + 2, SetProp(result, key, JsStr(a[i + 1])))
           ELSE parseArgsLoop(a, i + 1, SetProp(result, key, JsTrue))
    ELSE
      IF result[W.us].t = "arr"
        THEN parseArgsLoop(a, i + 1,
               SetProp(result, W.us, JsArr(Append(result[W.us].v, arg))))
        ELSE [threw |-> TRUE, obj |-> result]

\* variant: a parser that converts the values of the flags to numbers
parseArgs_coerce(a) ==
  LET p == parseArgsLoop(a, 1, (W.us :> JsArr(<<>>))) IN
  [p EXCEPT !.obj = [k \in DOMAIN p.obj |->
     IF p.obj[k].t = "str" THEN [t |-> "num", v |-> p.obj[k].v] ELSE p.obj[k]]]
parseArgs(a) == parseArgsLoop(a, 1, (W.us :> JsArr(<<>>)))

(***************************************************************************)
(* const [cmd, sub, ...rest] = args._   (klaviyo.js:56)                    *)
(* An array is destructured by position; a string is iterated character    *)
(* by character; the boolean true is not iterable and the statement        *)
(* throws a TypeError at module level, outside main().catch.               *)
(***************************************************************************)
destructure(us) ==
  LET items == IF us.t = "arr" THEN us.v
               ELSE [i \in 1..Len(us.v) |-> <<us.v[i]>>]
  IN IF us.t = "bool" \/ us.t = "undef"
       THEN [threw |-> TRUE, cmd |-> JsUndef, sub |-> JsUndef, rest |-> <<>>]
       ELSE [threw |-> FALSE,
             cmd |-> IF Len(items) >= 1 THEN JsStr(items[1]) ELSE JsUndef,
             sub |-> IF Len(items) >= 2 THEN JsStr(items[2]) ELSE JsUndef,
             rest |-> SubSeq(items, 3, Len(items))]

(***************************************************************************)
(* Environment                                                             *)
(***************************************************************************)
\* process.env.X of a variable that is not set (undefined)
UNSET == "\\undefined"
\* !X is false: the variable is set and not the empty string
Present(x) == x # UNSET /\ x # ""
\* the value a set variable holds
ValueOf(name) == "value-of-" \o name

Tools == {"klaviyo", "demio", "trustpilot", "kit", "mixpanel", "hotjar",
          "buffer", "meta-ads", "sendgrid", "semrush", "google-ads",
          "plausible"}

\* the process.env names each tool reads at its top
EnvVars(t) ==
  CASE t = "klaviyo" -> {"KLAVIYO_API_KEY"}
    [] t = "demio" -> {"DEMIO_API_KEY", "DEMIO_API_SECRET"}
    [] t = "trustpilot" -> {"TRUSTPILOT_API_KEY", "TRUSTPILOT_API_SECRET",
                            "TRUSTPILOT_BUSINESS_UNIT_ID"}
    [] t = "kit" -> {"KIT_API_SECRET", "KIT_API_KEY"}
    [] t = "mixpanel" -> {"MIXPANEL_TOKEN", "MIXPANEL_API_KEY", "MIXPANEL_SECRET"}
    [] t = "hotjar" -> {"HOTJAR_CLIENT_ID", "HOTJAR_CLIENT_SECRET"}
    [] t = "buffer" -> {"BUFFER_API_KEY"}
    [] t = "meta-ads" -> {"META_ACCESS_TOKEN", "META_AD_ACCOUNT_ID"}
    [] t = "sendgrid" -> {"SENDGRID_API_KEY"}
    [] t = "semrush" -> {"SEMRUSH_API_KEY"}
    [] t = "google-ads" -> {"GOOGLE_ADS_TOKEN", "GOOGLE_ADS_DEVELOPER_TOKEN",
                            "GOOGLE_ADS_CUSTOMER_ID"}
    [] t = "plausible" -> {"PLAUSIBLE_API_KEY", "PLAUSIBLE_BASE_URL"}

\* console.error(JSON.stringify({ error })) : one single-line JSON object
ErrLine(msg) == [fmt |-> "json-line", error |-> msg]
\* the report Node prints for an exception nothing catches: not JSON
StackTrace == [fmt |-> "stack-trace", error |-> "TypeError"]

GatePass == [exit |-> FALSE, errs |-> <<>>]
\* variant: the gate exits with code 1 without reporting
GateExit_silent(msg) == [exit |-> TRUE, errs |-> <<>>]
GateExit(msg) == [exit |-> TRUE, errs |-> <<ErrLine(msg)>>]

\* if (!API_KEY) { console.error(...); process.exit(1) }
gate1(e, name, msg) == IF ~Present(e[name]) THEN GateExit(msg) ELSE GatePass

klaviyo_gate(e) ==
  gate1(e, "KLAVIYO_API_KEY", "KLAVIYO_API_KEY environment variable required")

\* variant: a gate that tests only the first of the two variables
demio_gate_keyOnly(e) ==
  gate1(e, "DEMIO_API_KEY", "DEMIO_API_KEY environment variable required")

demio_gate(e) ==
  IF ~Present(e["DEMIO_API_KEY"])
    THEN GateExit("DEMIO_API_KEY environment variable required")
  ELSE IF ~Present(e["DEMIO_API_SECRET"])
    THEN GateExit("DEMIO_API_SECRET environment variable required")
  ELSE GatePass

trustpilot_gate(e) ==
  gate1(e, "TRUSTPILOT_API_KEY", "TRUSTPILOT_API_KEY environment variable required")

\* variant: a gate that lets every environment pass
kit_gate_open(e) == GatePass

kit_gate(e) ==
  IF ~Present(e["KIT_API_SECRET"]) /\ ~Present(e["KIT_API_KEY"])
    THEN GateExit("KIT_API_SECRET or KIT_API_KEY environment variable required")
    ELSE GatePass

mixpanel_gate(e) ==
  IF ~Present(e["MIXPANEL_TOKEN"]) /\ ~Present(e["MIXPANEL_API_KEY"])
    THEN GateExit("MIXPANEL_TOKEN (for ingestion) or MIXPANEL_API_KEY + MIXPANEL_SECRET (for query/export) environment variables required")
    ELSE GatePass

hotjar_gate(e) ==
  IF ~Present(e["HOTJAR_CLIENT_ID"]) \/ ~Present(e["HOTJAR_CLIENT_SECRET"])
    THEN GateExit("HOTJAR_CLIENT_ID and HOTJAR_CLIENT_SECRET environment variables required")
    ELSE GatePass

buffer_gate(e) ==
  gate1(e, "BUFFER_API_KEY", "BUFFER_API_KEY environment variable required")

meta_gate(e) ==
  gate1(e, "META_ACCESS_TOKEN", "META_ACCESS_TOKEN environment variable required")

sendgrid_gate(e) ==
  gate1(e, "SENDGRID_API_KEY", "SENDGRID_API_KEY environment variable required")

semrush_gate(e) ==
  gate1(e, "SEMRUSH_API_KEY", "SEMRUSH_API_KEY environment variable required")

google_gate(e) ==
  IF \/ ~Present(e["GOOGLE_ADS_TOKEN"])
     \/ ~Present(e["GOOGLE_ADS_DEVELOPER_TOKEN"])
     \/ ~Present(e["GOOGLE_ADS_CUSTOMER_ID"])
    THEN GateExit("GOOGLE_ADS_TOKEN, GOOGLE_ADS_DEVELOPER_TOKEN, and GOOGLE_ADS_CUSTOMER_ID environment variables required")
    ELSE GatePass

plausible_gate(e) ==
  gate1(e, "PLAUSIBLE_API_KEY", "PLAUSIBLE_API_KEY environment variable required")

gate(t, e) ==
  CASE t = "klaviyo" -> klaviyo_gate(e)
    [] t = "demio" -> demio_gate(e)
    [] t = "trustpilot" -> trustpilot_gate(e)
    [] t = "kit" -> kit_gate(e)
    [] t = "mixpanel" -> mixpanel_gate(e)
    [] t = "hotjar" -> hotjar_gate(e)
    [] t = "buffer" -> buffer_gate(e)
    [] t = "meta-ads" -> meta_gate(e)
    [] t = "sendgrid" -> sendgrid_gate(e)
    [] t = "semrush" -> semrush_gate(e)
    [] t = "google-ads" -> google_gate(e)
    [] t = "plausible" -> plausible_gate(e)

(***************************************************************************)
(* Text, requests and results                                              *)
(***************************************************************************)
\* a piece of text: a literal of the source (L) or the value of an
\* environment variable (V), the characters of a command-line token (v), the
\* percent-encoding of such characters, or the base64 of other pieces
L(str) == [k |-> "lit", s |-> str, v |-> <<>>]
V(val) == [k |-> "env", s |-> val, v |-> <<>>]
C(chars) == [k |-> "chars", s |-> "", v |-> chars]
Enc(chars) == [k |-> "uri", s |-> "", v |-> chars]
B64(pieces) == [k |-> "b64", s |-> "", v |-> pieces]
\* parseInt(val): the number read from the text of val
ParseInt(piece) == [k |-> "parseInt", s |-> "", v |-> <<piece>>]
\* new Date(ms).toISOString().slice(0, 10): the calendar day of an instant
\* of the clock, which counts days
IsoDay(day) == [k |-> "isoDay", s |-> "", v |-> <<day>>]

\* `${val}` : the text of a value of the parsed-arguments object
Text(val) ==
  CASE val.t = "str" -> C(val.v)
    [] val.t = "bool" -> L("true")
    [] val.t = "undef" -> L("undefined")
    [] OTHER -> L("[array]")

\* encodeURIComponent(val) / URLSearchParams serialisation of val
EncText(val) ==
  CASE val.t = "str" -> Enc(val.v)
    [] val.t = "bool" -> L("true")
    [] val.t = "undef" -> L("undefined")
    [] OTHER -> L("[array]")

\* the mask token of the dry-run descriptors
Mask == <<L("***")>>

\* request bodies: a list of (field, text) of the payload object, and how
\* it is carried: the object itself (dry-run descriptor), JSON.stringify,
\* or a form-encoded string
NoBody == [enc |-> "none", fields |-> <<>>]
Body(fields) == [enc |-> "object", fields |-> fields]
Fld(name, pieces) == [f |-> name, v |-> pieces]
\* body ? JSON.stringify(body) : undefined
Stringify(b) == IF b.enc = "none" THEN b ELSE [b EXCEPT !.enc = "json"]

Req(method, url, headers, body) ==
  [method |-> method, url |-> url, headers |-> headers, body |-> body]
NoReq == Req("", <<>>, <<>>, NoBody)

\* values assigned to `result` in main
ErrorResult(msg) ==
  [kind |-> "error", error |-> msg, usage |-> FALSE, req |-> NoReq,
   status |-> 0, text |-> ""]
UsageResult ==
  [kind |-> "error", error |-> "Unknown command", usage |-> TRUE, req |-> NoReq,
   status |-> 0, text |-> ""]
DryRun(req) ==
  [kind |-> "dry_run", error |-> "", usage |-> FALSE, req |-> req,
   status |-> 0, text |-> ""]
Parsed(text) ==
  [kind |-> "json", error |-> "", usage |-> FALSE, req |-> NoReq,
   status |-> 0, text |-> text]
StatusBody(status, text) ==
  [kind |-> "status_body", error |-> "", usage |-> FALSE, req |-> NoReq,
   status |-> status, text |-> text]
NoResult ==
  [kind |-> "none", error |-> "", usage |-> FALSE, req |-> NoReq,
   status |-> 0, text |-> ""]

\* what main() does up to its first await of a fetch: it has a result to
\* print, it throws, or it has issued a request and waits for the response
\* (cont names the code that handles the response)
Return(result) == [k |-> "return", result |-> result, req |-> NoReq, cont |-> "", msg |-> "", next |-> NoReq]
Fetch(req, cont) == [k |-> "fetch", result |-> NoResult, req |-> req, cont |-> cont, msg |-> "", next |-> NoReq]
Throw(msg) == [k |-> "throw", result |-> NoResult, req |-> NoReq, cont |-> "", msg |-> msg, next |-> NoReq]

\* args['dry-run']
dryRun(a) == Truthy(GetProp(a, W.dry_run))

\* new URLSearchParams(); if (args.x) params.set(name, args.x) ...; toString()
\* pairs: the (name, value) in insertion order; only truthy values are set
RECURSIVE qsJoin(_, _)
qsJoin(pairs, first) ==
  IF pairs = <<>> THEN <<>>
  ELSE LET p == Head(pairs) IN
       IF Truthy(p.val)
         THEN <<L((IF first THEN "" ELSE "&") \o p.name \o "="), EncText(p.val)>>
              \o qsJoin(Tail(pairs), FALSE)
         ELSE qsJoin(Tail(pairs), first)
Pair(name, val) == [name |-> name, val |-> val]

\* variant: a parse that accepts every text
jsonParses_lenient(val) == TRUE

\* JSON.parse of a flag value: whether it parses, for the texts {} and []
\* and the literals true, false and null; any other text of the runs' tokens
\* is not JSON
jsonParses(val) ==
  \/ val.t = "bool"
  \/ /\ val.t = "str"
     /\ val.v \in {<<"{", "}">>, <<"[", "]">>, <<"t", "r", "u", "e">>,
                   <<"f", "a", "l", "s", "e">>, <<"n", "u", "l", "l">>}

\* String.prototype.split(sep) on the characters of a text
RECURSIVE splitFrom(_, _, _, _)
splitFrom(chars, sep, i, cur) ==
  IF i > Len(chars) THEN <<cur>>
  ELSE IF chars[i] = sep THEN <<cur>> \o splitFrom(chars, sep, i + 1, <<>>)
  ELSE splitFrom(chars, sep, i + 1, Append(cur, chars[i]))
\* variant: only the text before the first separator is kept
split_first(chars, sep) == <<Head(splitFrom(chars, sep, 1, <<>>))>>
split(chars, sep) == splitFrom(chars, sep, 1, <<>>)

(***************************************************************************)
(* Klaviyo (tools/clis/klaviyo.js)                                         *)
(***************************************************************************)
klaviyo_BASE_URL == "https://a.klaviyo.com/api"

\* variant: a dry-run descriptor that copies the headers of the request
klaviyo_api_unmasked(a, e, method, path, body) ==
  LET headers == ("Authorization" :> <<L("Klaviyo-API-Key "), V(e["KLAVIYO_API_KEY"])>>)
                 @@ ("Content-Type" :> <<L("application/json")>>)
                 @@ ("Accept" :> <<L("application/json")>>)
                 @@ ("revision" :> <<L("2024-10-15")>>)
      url == <<L(klaviyo_BASE_URL)>> \o path
  IN IF dryRun(a)
       THEN Return(DryRun(Req(method, url, headers, body)))
       ELSE Fetch(Req(method, url, headers, Stringify(body)), "api")

klaviyo_api(a, e, method, path, body) ==
  LET headers == ("Authorization" :> <<L("Klaviyo-API-Key "), V(e["KLAVIYO_API_KEY"])>>)
                 @@ ("Content-Type" :> <<L("application/json")>>)
                 @@ ("Accept" :> <<L("application/json")>>)
                 @@ ("revision" :> <<L("2024-10-15")>>)
      url == <<L(klaviyo_BASE_URL)>> \o path
  IN IF dryRun(a)
       THEN Return(DryRun(Req(method, url, [headers EXCEPT !["Authorization"] = Mask], body)))
       ELSE Fetch(Req(method, url, headers, Stringify(body)), "api")

\* main(): the commands profiles (list, get, create), lists (add-profiles)
\* and campaigns (list, get) of the switch
klaviyo_main(a, c, sb, r, e) ==
  IF c = JsStr(W.profiles) THEN
    IF sb = JsStr(W.list) THEN
      LET qs == qsJoin(<<Pair("filter", GetProp(a, W.filter)),
                         Pair("sort", GetProp(a, W.sort)),
                         Pair("page[size]", GetProp(a, W.page_size)),
                         Pair("page[cursor]", GetProp(a, W.page_cursor))>>, TRUE)
      IN klaviyo_api(a, e, "GET",
           <<L("/profiles/")>> \o (IF qs # <<>> THEN <<L("?")>> \o qs ELSE <<>>), NoBody)
    ELSE IF sb = JsStr(W.get) THEN
      LET id == GetProp(a, W.id) IN
      IF ~Truthy(id) THEN Return(ErrorResult("--id required"))
      ELSE klaviyo_api(a, e, "GET", <<L("/profiles/"), Text(id), L("/")>>, NoBody)
    ELSE IF sb = JsStr(W.create) THEN
      LET email == GetProp(a, W.email) IN
      IF ~Truthy(email) THEN Return(ErrorResult("--email required"))
      ELSE klaviyo_api(a, e, "POST", <<L("/profiles/")>>,
             Body(<<Fld("data.type", <<L("profile")>>),
                    Fld("data.attributes.email", <<Text(email)>>)>>
                  \o (IF Truthy(GetProp(a, W.first_name))
                        THEN <<Fld("data.attributes.first_name", <<Text(GetProp(a, W.first_name))>>)>>
                        ELSE <<>>)
                  \o (IF Truthy(GetProp(a, W.last_name))
                        THEN <<Fld("data.attributes.last_name", <<Text(GetProp(a, W.last_name))>>)>>
                        ELSE <<>>)
                  \o (IF Truthy(GetProp(a, W.phone))
                        THEN <<Fld("data.attributes.phone_number", <<Text(GetProp(a, W.phone))>>)>>
                        ELSE <<>>)))
    ELSE Return(ErrorResult("Unknown profiles subcommand. Use: list, get, create, update"))
  ELSE IF c = JsStr(W.lists) THEN
    IF sb = JsStr(W.add_profiles) THEN
      LET id == GetProp(a, W.id)
          profiles == GetProp(a, W.profiles)
      IN
      IF ~Truthy(id) THEN Return(ErrorResult("--id required (list ID)"))
      \* args.profiles?.split(','): undefined for an absent flag, a TypeError
      \* for the boolean true, which has no split
      ELSE IF profiles.t = "undef"
        THEN Return(ErrorResult("--profiles required (comma-separated profile IDs)"))
      ELSE IF profiles.t # "str" THEN Throw("args.profiles?.split is not a function")
      ELSE
        LET profileIds == split(profiles.v, ",") IN
        klaviyo_api(a, e, "POST",
          <<L("/lists/"), Text(id), L("/relationships/profiles/")>>,
          Body([i \in 1..Len(profileIds) |-> Fld("data[].id", <<C(profileIds[i])>>)]))
    ELSE Return(ErrorResult("Unknown lists subcommand. Use: list, get, create, delete, add-profiles, remove-profiles"))
  ELSE IF c = JsStr(W.campaigns) THEN
    IF sb = JsStr(W.list) THEN
      LET qs == qsJoin(<<Pair("filter", GetProp(a, W.filter)),
                         Pair("page[size]", GetProp(a, W.page_size))>>, TRUE)
      IN klaviyo_api(a, e, "GET",
           <<L("/campaigns/")>> \o (IF qs # <<>> THEN <<L("?")>> \o qs ELSE <<>>), NoBody)
    ELSE IF sb = JsStr(W.get) THEN
      LET id == GetProp(a, W.id) IN
      IF ~Truthy(id) THEN Return(ErrorResult("--id required"))
      ELSE klaviyo_api(a, e, "GET", <<L("/campaigns/"), Text(id), L("/")>>, NoBody)
    ELSE Return(ErrorResult("Unknown campaigns subcommand. Use: list, get"))
  ELSE Return(UsageResult)

(***************************************************************************)
(* Demio (tools/clis/demio.js)                                             *)
(***************************************************************************)
demio_BASE_URL == "https://my.demio.com/api/v1"

demio_api(a, e, method, path, body) ==
  LET url == <<L(demio_BASE_URL)>> \o path IN
  IF dryRun(a)
    THEN Return(DryRun(Req(method, url,
           ("Api-Key" :> Mask) @@ ("Api-Secret" :> Mask)
           @@ ("Content-Type" :> <<L("application/json")>>)
           @@ ("Accept" :> <<L("application/json")>>), body)))
    ELSE Fetch(Req(method, url,
           ("Api-Key" :> <<V(e["DEMIO_API_KEY"])>>)
           @@ ("Api-Secret" :> <<V(e["DEMIO_API_SECRET"])>>)
           @@ ("Content-Type" :> <<L("application/json")>>)
           @@ ("Accept" :> <<L("application/json")>>), Stringify(body)), "api")

\* main(): the command ping and the subcommand get of events
demio_main(a, c, sb, r, e) ==
  IF c = JsStr(W.ping) THEN demio_api(a, e, "GET", <<L("/ping")>>, NoBody)
  ELSE IF c = JsStr(W.events) THEN
    IF sb = JsStr(W.get) THEN
      LET id == GetProp(a, W.id) IN
      IF ~Truthy(id) THEN Return(ErrorResult("--id required"))
      ELSE demio_api(a, e, "GET", <<L("/event/"), Text(id)>>, NoBody)
    ELSE Return(ErrorResult("Unknown events subcommand. Use: list, get, date"))
  ELSE Return(UsageResult)

(***************************************************************************)
(* Hotjar (tools/clis/hotjar.js:1-166)                                     *)
(***************************************************************************)
hotjar_BASE_URL == "https://api.hotjar.io/v1"

\* the place of the access token in a request built before the token is known
TokenSlot == [k |-> "token", s |-> "", v |-> <<>>]

\* the request of getToken()
hotjar_tokenRequest(e) ==
  Req("POST", <<L(hotjar_BASE_URL), L("/oauth/token")>>,
      ("Content-Type" :> <<L("application/x-www-form-urlencoded")>>),
      [enc |-> "form",
       fields |-> <<Fld("grant_type", <<L("client_credentials")>>),
                    Fld("client_id", <<V(e["HOTJAR_CLIENT_ID"])>>),
                    Fld("client_secret", <<V(e["HOTJAR_CLIENT_SECRET"])>>)>>])

\* a request that first awaits the token of req's TokenSlot
FetchToken(tokenReq, cont, req) ==
  [k |-> "fetch", result |-> NoResult, req |-> tokenReq, cont |-> cont,
   msg |-> "", next |-> req]

\* the request with the token put in its TokenSlot
\* variant: the resource request goes out without the fetched token
withToken_unfilled(req, token) == req

withToken(req, token) ==
  [req EXCEPT !.headers =
     [h \in DOMAIN req.headers |->
        [i \in 1..Len(req.headers[h]) |->
           IF req.headers[h][i] = TokenSlot THEN L(token) ELSE req.headers[h][i]]]]

\* variant: an api that obtains the token before it tests args['dry-run']
hotjar_api_tokenFirst(a, e, ct, method, path) ==
  LET url == <<L(hotjar_BASE_URL)>> \o path
      live(tokenPiece) ==
        Req(method, url,
            ("Authorization" :> <<L("Bearer "), tokenPiece>>)
            @@ ("Content-Type" :> <<L("application/json")>>)
            @@ ("Accept" :> <<L("application/json")>>), NoBody)
  IN IF ct # ""
       THEN (IF dryRun(a)
               THEN Return(DryRun(Req(method, url,
                      ("Authorization" :> Mask)
                      @@ ("Content-Type" :> <<L("application/json")>>)
                      @@ ("Accept" :> <<L("application/json")>>), NoBody)))
               ELSE Fetch(live(L(ct)), "api"))
       ELSE FetchToken(hotjar_tokenRequest(e), "hotjar_token", live(TokenSlot))

\* api(method, path); ct is cachedToken
hotjar_api(a, e, ct, method, path) ==
  LET url == <<L(hotjar_BASE_URL)>> \o path
      live(tokenPiece) ==
        Req(method, url,
            ("Authorization" :> <<L("Bearer "), tokenPiece>>)
            @@ ("Content-Type" :> <<L("application/json")>>)
            @@ ("Accept" :> <<L("application/json")>>), NoBody)
  IN IF dryRun(a)
       THEN Return(DryRun(Req(method, url,
              ("Authorization" :> Mask)
              @@ ("Content-Type" :> <<L("application/json")>>)
              @@ ("Accept" :> <<L("application/json")>>), NoBody)))
     ELSE IF ct # ""
       THEN Fetch(live(L(ct)), "api")
       ELSE FetchToken(hotjar_tokenRequest(e), "hotjar_token", live(TokenSlot))

\* main(): the commands sites (list) and surveys (list, responses)
hotjar_main(a, c, sb, r, e, ct) ==
  LET siteId == GetProp(a, W.site_id)
      limit == IF Truthy(GetProp(a, W.limit)) THEN GetProp(a, W.limit)
               ELSE JsStr(<<"1", "0", "0">>)
      cursor == GetProp(a, W.cursor)
  IN
  IF c = JsStr(W.sites) THEN
    IF sb = JsStr(W.list) THEN hotjar_api(a, e, ct, "GET", <<L("/sites")>>)
    ELSE Return(ErrorResult("Unknown sites subcommand. Use: list"))
  ELSE IF c = JsStr(W.surveys) THEN
    IF ~Truthy(siteId) THEN Return(ErrorResult("--site-id required"))
    ELSE IF sb = JsStr(W.list) THEN
      hotjar_api(a, e, ct, "GET", <<L("/sites/"), Text(siteId), L("/surveys")>>)
    ELSE IF sb = JsStr(W.responses) THEN
      LET surveyId == GetProp(a, W.survey_id) IN
      IF ~Truthy(surveyId) THEN Return(ErrorResult("--survey-id required"))
      ELSE hotjar_api(a, e, ct, "GET",
             <<L("/sites/"), Text(siteId), L("/surveys/"), Text(surveyId),
               L("/responses?")>>
             \o qsJoin(<<Pair("limit", limit), Pair("cursor", cursor)>>, TRUE))
    ELSE Return(ErrorResult("Unknown surveys subcommand. Use: list, responses"))
  ELSE Return(UsageResult)

\* getToken() after its fetch: res.json() throws on a body that is not JSON;
\* a body without access_token raises an Error; else the token is cached
hotjar_getToken(resp) ==
  IF ~resp.json THEN [k |-> "throw", msg |-> "Unexpected token", token |-> ""]
  ELSE IF resp.access_token = ""
    THEN [k |-> "throw", msg |-> "Failed to obtain access token", token |-> ""]
  ELSE [k |-> "token", msg |-> "", token |-> resp.access_token]

(***************************************************************************)
(* Trustpilot (tools/clis/trustpilot.js:1-279)                             *)
(***************************************************************************)
trustpilot_BASE_URL == "https://api.trustpilot.com/v1"

trustpilot_tokenRequest(e) ==
  Req("POST", <<L(trustpilot_BASE_URL),
                L("/oauth/oauth-business-users-for-applications/accesstoken")>>,
      ("Authorization" :> <<L("Basic "),
                            B64(<<V(e["TRUSTPILOT_API_KEY"]), L(":"),
                                  V(e["TRUSTPILOT_API_SECRET"])>>)>>)
      @@ ("Content-Type" :> <<L("application/x-www-form-urlencoded")>>),
      [enc |-> "form", fields |-> <<Fld("grant_type", <<L("client_credentials")>>)>>])

\* api(method, path, body, auth = 'apikey'); ct is accessToken
trustpilot_api(a, e, ct, method, path, body, auth) ==
  LET url == <<L(trustpilot_BASE_URL)>> \o path
      base == ("Content-Type" :> <<L("application/json")>>)
              @@ ("Accept" :> <<L("application/json")>>)
      bearer(tokenPiece) ==
        Req(method, url, base @@ ("Authorization" :> <<L("Bearer "), tokenPiece>>),
            Stringify(body))
  IN IF dryRun(a)
       THEN Return(DryRun(Req(method, url,
              IF auth = "bearer" THEN base @@ ("Authorization" :> Mask)
                                 ELSE base @@ ("apikey" :> Mask), body)))
     ELSE IF auth = "bearer" THEN
       \* getAccessToken()
       IF ct # "" THEN Fetch(bearer(L(ct)), "api")
       ELSE IF ~Present(e["TRUSTPILOT_API_SECRET"])
         THEN Return(ErrorResult("TRUSTPILOT_API_SECRET required for private API endpoints"))
       ELSE FetchToken(trustpilot_tokenRequest(e), "trustpilot_token", bearer(TokenSlot))
     ELSE Fetch(Req(method, url,
                    base @@ ("apikey" :> <<V(e["TRUSTPILOT_API_KEY"])>>),
                    Stringify(body)), "api")

\* main(): business search, reviews private, reviews latest
trustpilot_main(a, c, sb, r, e, ct) ==
  LET buFlag == GetProp(a, W.business_unit)
      \* args['business-unit'] || BUSINESS_UNIT_ID
      hasBU == Truthy(buFlag) \/ Present(e["TRUSTPILOT_BUSINESS_UNIT_ID"])
      businessUnitId == IF Truthy(buFlag) THEN Text(buFlag)
                        ELSE V(e["TRUSTPILOT_BUSINESS_UNIT_ID"])
      \* args.limit ? Number(args.limit) : 20
      limit == IF Truthy(GetProp(a, W.limit))
                 THEN [k |-> "number", s |-> "", v |-> GetProp(a, W.limit).v]
                 ELSE L("20")
  IN
  IF c = JsStr(W.business) THEN
    IF sb = JsStr(W.search) THEN
      LET query == GetProp(a, W.query) IN
      IF ~Truthy(query) THEN Return(ErrorResult("--query required"))
      ELSE trustpilot_api(a, e, ct, "GET",
             <<L("/business-units/search?query="), EncText(query), L("&limit="), limit>>,
             NoBody, "apikey")
    ELSE Return(ErrorResult("Unknown business subcommand. Use: search, get, profile, categories, web-links"))
  ELSE IF c = JsStr(W.reviews) THEN
    IF sb = JsStr(W.private) THEN
      IF ~hasBU THEN Return(ErrorResult("--business-unit or TRUSTPILOT_BUSINESS_UNIT_ID required"))
      ELSE trustpilot_api(a, e, ct, "GET",
             <<L("/private/business-units/"), businessUnitId, L("/reviews?perPage="), limit>>
             \o qsJoin(<<Pair("stars", GetProp(a, W.stars))>>, FALSE),
             NoBody, "bearer")
    ELSE IF sb = JsStr(W.latest) THEN
      trustpilot_api(a, e, ct, "GET", <<L("/reviews/latest?count="), limit>>,
                     NoBody, "apikey")
    ELSE Return(ErrorResult("Unknown reviews subcommand. Use: list, get, private, latest, reply, delete-reply"))
  ELSE Return(UsageResult)

\* getAccessToken() after its fetch: res.json() throws on a body that is
\* not JSON; without access_token it returns null and api() returns an error
trustpilot_getAccessToken(resp) ==
  IF ~resp.json THEN [k |-> "throw", msg |-> "Unexpected token", token |-> ""]
  ELSE IF resp.access_token = ""
    THEN [k |-> "null", msg |-> "TRUSTPILOT_API_SECRET required for private API endpoints", token |-> ""]
  ELSE [k |-> "token", msg |-> "", token |-> resp.access_token]

(***************************************************************************)
(* Kit (tools/clis/kit.js)                                                 *)
(***************************************************************************)
kit_BASE_URL == "https://api.convertkit.com/v3"

\* String.prototype.replace(pattern, '***') on a text given by its pieces,
\* for a pattern that is the value of an environment variable: an unset
\* variable is the pattern "undefined", an empty one matches at position 0
replaceFirst(pieces, pattern) ==
  IF pattern = "" THEN Mask \o pieces
  ELSE LET target == IF pattern = UNSET THEN L("undefined") ELSE V(pattern)
           hits == {i \in 1..Len(pieces) : pieces[i] = target}
       IN IF hits = {} THEN pieces
          ELSE LET first == CHOOSE i \in hits : \A j \in hits : i <= j
               IN [i \in 1..Len(pieces) |-> IF i = first THEN L("***") ELSE pieces[i]]

\* api(method, path, body, useSecret = true) for the GET requests of main;
\* query holds the pairs of the path's query string, to which
\* url.searchParams.set adds the credential
kit_api(a, e, method, path, query, useSecret) ==
  LET secret == e["KIT_API_SECRET"]
      key == e["KIT_API_KEY"]
      auth == IF useSecret /\ Present(secret)
                THEN <<L((IF query = <<>> THEN "" ELSE "&") \o "api_secret="), V(secret)>>
              ELSE IF Present(key)
                THEN <<L((IF query = <<>> THEN "" ELSE "&") \o "api_key="), V(key)>>
              ELSE <<>>
      search == query \o auth
      url == <<L(kit_BASE_URL)>> \o path
             \o (IF search = <<>> THEN <<>> ELSE <<L("?")>> \o search)
      headers == ("Content-Type" :> <<L("application/json")>>)
  IN IF dryRun(a)
       THEN Return(DryRun(Req(method, replaceFirst(replaceFirst(url, secret), key),
                              headers, NoBody)))
       ELSE Fetch(Req(method, url, headers, NoBody), "api")

\* main(): subscribers list, forms list
kit_main(a, c, sb, r, e) ==
  IF c = JsStr(W.subscribers) THEN
    IF sb = JsStr(W.list) THEN
      kit_api(a, e, "GET", <<L("/subscribers")>>,
              qsJoin(<<Pair("page", GetProp(a, W.page))>>, TRUE), TRUE)
    ELSE Return(ErrorResult("Unknown subscribers subcommand. Use: list, get, update, unsubscribe"))
  ELSE IF c = JsStr(W.forms) THEN
    IF sb = JsStr(W.list) THEN kit_api(a, e, "GET", <<L("/forms")>>, <<>>, FALSE)
    ELSE Return(ErrorResult("Unknown forms subcommand. Use: list, subscribe"))
  ELSE Return(UsageResult)

(***************************************************************************)
(* Mixpanel (unnamed/part_010)                                             *)
(***************************************************************************)
mixpanel_QUERY_URL == "https://mixpanel.com/api/2.0"

\* queryApi(method, baseUrl, path, params)
mixpanel_queryApi(a, e, method, baseUrl, path, params) ==
  IF ~Present(e["MIXPANEL_API_KEY"]) \/ ~Present(e["MIXPANEL_SECRET"])
    THEN Return(ErrorResult("MIXPANEL_API_KEY and MIXPANEL_SECRET required for query/export operations"))
  ELSE
    LET auth == B64(<<V(e["MIXPANEL_API_KEY"]), L(":"), V(e["MIXPANEL_SECRET"])>>)
        url == <<L(baseUrl)>> \o path
               \o (IF params = <<>> THEN <<>> ELSE <<L("?")>> \o params)
        headers == ("Authorization" :> <<L("Basic "), auth>>)
                   @@ ("Content-Type" :> <<L("application/json")>>)
    IN IF dryRun(a)
         THEN Return(DryRun(Req(method, url,
                [headers EXCEPT !["Authorization"] = Mask], NoBody)))
         ELSE Fetch(Req(method, url, headers, NoBody), "api")

mixpanel_queryApiPost(a, e, path, body) ==
  IF ~Present(e["MIXPANEL_API_KEY"]) \/ ~Present(e["MIXPANEL_SECRET"])
    THEN Return(ErrorResult("MIXPANEL_API_KEY and MIXPANEL_SECRET required for query/export operations"))
  ELSE
    LET auth == B64(<<V(e["MIXPANEL_API_KEY"]), L(":"), V(e["MIXPANEL_SECRET"])>>)
        url == <<L(mixpanel_QUERY_URL)>> \o path
        headers == ("Authorization" :> <<L("Basic "), auth>>)
                   @@ ("Content-Type" :> <<L("application/json")>>)
    IN IF dryRun(a)
         THEN Return(DryRun(Req("POST", url,
                [headers EXCEPT !["Authorization"] = Mask], body)))
         ELSE Fetch(Req("POST", url, headers, Stringify(body)), "api")

mixpanel_INGESTION_URL == "https://api.mixpanel.com"

\* ingestApi(method, path, body): no credential header; the body goes into
\* the dry-run descriptor as it is
mixpanel_ingestApi(a, e, method, path, body) ==
  LET url == <<L(mixpanel_INGESTION_URL)>> \o path
      headers == ("Content-Type" :> <<L("application/json")>>)
  IN IF dryRun(a)
       THEN Return(DryRun(Req(method, url, headers, body)))
       ELSE Fetch(Req(method, url, headers, Stringify(body)), "api")

\* the window of 'query events' when --from-date is not given
mixpanel_DefaultDays == 30

\* main(): profiles set, query events, funnels get; t is the time of the run
mixpanel_main(a, c, sb, r, e, t) ==
  IF c = JsStr(W.profiles) THEN
    IF sb = JsStr(W.set) THEN
      LET properties == GetProp(a, W.properties) IN
      IF ~Present(e["MIXPANEL_TOKEN"]) THEN Return(ErrorResult("MIXPANEL_TOKEN required for profiles"))
      ELSE IF ~Truthy(GetProp(a, W.distinct_id)) THEN Return(ErrorResult("--distinct-id required"))
      ELSE IF Truthy(properties) /\ ~jsonParses(properties) THEN Throw("Unexpected token")
      ELSE mixpanel_ingestApi(a, e, "POST", <<L("/engage")>>,
             Body(<<Fld("[0].$token", <<V(e["MIXPANEL_TOKEN"])>>),
                    Fld("[0].$distinct_id", <<Text(GetProp(a, W.distinct_id))>>),
                    Fld("[0].$set",
                        <<IF Truthy(properties) THEN Text(properties) ELSE L("{}")>>)>>))
    ELSE Return(ErrorResult("Unknown profiles subcommand. Use: set"))
  ELSE IF c = JsStr(W.query) THEN
    IF sb = JsStr(W.events) THEN
      IF ~Truthy(GetProp(a, W.project_id)) THEN Return(ErrorResult("--project-id required"))
      ELSE mixpanel_queryApiPost(a, e, <<L("/insights")>>,
             Body(<<Fld("project_id", <<ParseInt(Text(GetProp(a, W.project_id)))>>),
                    Fld("bookmark_id", <<L("null")>>),
                    Fld("params.events[0].event",
                        <<IF Truthy(GetProp(a, W.event))
                            THEN Text(GetProp(a, W.event)) ELSE L("all")>>),
                    Fld("params.time_range.from_date",
                        <<IF Truthy(GetProp(a, W.from_date))
                            THEN Text(GetProp(a, W.from_date))
                            ELSE IsoDay(t - mixpanel_DefaultDays)>>),
                    Fld("params.time_range.to_date",
                        <<IF Truthy(GetProp(a, W.to_date))
                            THEN Text(GetProp(a, W.to_date)) ELSE IsoDay(t)>>)>>))
    ELSE Return(ErrorResult("Unknown query subcommand. Use: events"))
  ELSE IF c = JsStr(W.funnels) THEN
    IF sb = JsStr(W.get) THEN
      IF ~Truthy(GetProp(a, W.funnel_id)) THEN Return(ErrorResult("--funnel-id required"))
      ELSE mixpanel_queryApi(a, e, "GET", mixpanel_QUERY_URL, <<L("/funnels")>>,
             qsJoin(<<Pair("funnel_id", GetProp(a, W.funnel_id)),
                      Pair("from_date", GetProp(a, W.from_date)),
                      Pair("to_date", GetProp(a, W.to_date))>>, TRUE))
    ELSE Return(ErrorResult("Unknown funnels subcommand. Use: get"))
  ELSE Return(UsageResult)

(***************************************************************************)
(* Buffer (unnamed/part_008)                                               *)
(***************************************************************************)
buffer_BASE_URL == "https://api.bufferapp.com/1"

\* String.prototype.trim()
WhiteSpace == {" ", "\n", "\t", "\r"}
RECURSIVE trim(_)
trim(chars) ==
  IF chars = <<>> THEN chars
  ELSE IF Head(chars) \in WhiteSpace THEN trim(Tail(chars))
  ELSE IF chars[Len(chars)] \in WhiteSpace THEN trim(SubSeq(chars, 1, Len(chars) - 1))
  ELSE chars

\* api(method, path, body) for the GET requests of main
buffer_api(a, e, method, path) ==
  LET url == <<L(buffer_BASE_URL)>> \o path
      headers == ("Authorization" :> <<L("Bearer "), V(e["BUFFER_API_KEY"])>>)
                 @@ ("Accept" :> <<L("application/json")>>)
  IN IF dryRun(a)
       THEN Return(DryRun(Req(method, url,
              [headers EXCEPT !["Authorization"] = Mask], NoBody)))
       ELSE Fetch(Req(method, url, headers, NoBody), "api")

\* main(): updates create (which builds and sends its request itself), info
buffer_main(a, c, sb, r, e) ==
  IF c = JsStr(W.updates) THEN
    IF sb = JsStr(W.create) THEN
      LET profileIds == GetProp(a, W.profile_ids)
          text == GetProp(a, W.text)
      IN
      IF ~Truthy(profileIds) THEN Return(ErrorResult("--profile-ids required (comma-separated)"))
      ELSE IF ~Truthy(text) THEN Return(ErrorResult("--text required"))
      ELSE IF profileIds.t # "str" THEN Throw("profileIds.split is not a function")
      ELSE
        LET ids == split(profileIds.v, ",")
            flag(name, w) == IF Truthy(GetProp(a, w))
                               THEN <<Fld(name, <<L("true")>>)>> ELSE <<>>
            formBody ==
              [enc |-> "form",
               fields |-> <<Fld("text", <<EncText(text)>>)>>
                 \o [i \in 1..Len(ids) |-> Fld("profile_ids[]", <<Enc(trim(ids[i]))>>)]
                 \o (IF Truthy(GetProp(a, W.scheduled_at))
                       THEN <<Fld("scheduled_at", <<EncText(GetProp(a, W.scheduled_at))>>)>>
                       ELSE <<>>)
                 \o flag("now", W.now) \o flag("top", W.top) \o flag("shorten", W.shorten)]
            url == <<L(buffer_BASE_URL), L("/updates/create.json")>>
            rest_h == ("Content-Type" :> <<L("application/x-www-form-urlencoded")>>)
                      @@ ("Accept" :> <<L("application/json")>>)
        IN IF dryRun(a)
             THEN Return(DryRun(Req("POST", url, ("Authorization" :> Mask) @@ rest_h, formBody)))
             ELSE Fetch(Req("POST", url,
                    ("Authorization" :> <<L("Bearer "), V(e["BUFFER_API_KEY"])>>) @@ rest_h,
                    formBody), "api")
    ELSE Return(ErrorResult("Unknown updates subcommand. Use: get, pending, sent, create, update, share, destroy, reorder, shuffle"))
  ELSE IF c = JsStr(W.info) THEN
    buffer_api(a, e, "GET", <<L("/info/configuration.json")>>)
  ELSE Return(UsageResult)

(***************************************************************************)
(* Meta Ads (tools/clis/meta-ads.js)                                       *)
(***************************************************************************)
meta_BASE_URL == "https://graph.facebook.com/v18.0"

\* api(method, path, body) for the GET requests of main
meta_api(a, e, method, path) ==
  LET url == <<L(meta_BASE_URL)>> \o path
      headers == ("Authorization" :> <<L("Bearer "), V(e["META_ACCESS_TOKEN"])>>)
  IN IF dryRun(a)
       THEN Return(DryRun(Req(method, url,
              [headers EXCEPT !["Authorization"] = Mask], NoBody)))
       ELSE Fetch(Req(method, url, headers, NoBody), "api")

\* main(): accounts list, campaigns list
meta_main(a, c, sb, r, e) ==
  IF c = JsStr(W.accounts) THEN
    IF sb = JsStr(W.list) THEN
      meta_api(a, e, "GET", <<L("/me/adaccounts?fields=id,name,account_status")>>)
    ELSE Return(ErrorResult("Unknown accounts subcommand. Use: list"))
  ELSE IF c = JsStr(W.campaigns) THEN
    IF sb = JsStr(W.list) THEN
      \* getAccountId(): args['account-id'] || DEFAULT_ACCOUNT_ID
      LET flag == GetProp(a, W.account_id)
          has == Truthy(flag) \/ Present(e["META_AD_ACCOUNT_ID"])
          accountId == IF Truthy(flag) THEN Text(flag) ELSE V(e["META_AD_ACCOUNT_ID"])
      IN IF ~has THEN Return(ErrorResult("--account-id required (or set META_AD_ACCOUNT_ID)"))
         ELSE meta_api(a, e, "GET",
                <<L("/act_"), accountId,
                  L("/campaigns?fields=id,name,status,objective,daily_budget")>>)
    ELSE Return(ErrorResult("Unknown campaigns subcommand. Use: list, insights, create, update"))
  ELSE Return(UsageResult)

(***************************************************************************)
(* SendGrid (tools/clis/sendgrid.js)                                       *)
(***************************************************************************)
sendgrid_BASE_URL == "https://api.sendgrid.com/v3"

\* api(method, path, body)
sendgrid_api(a, e, method, path, body) ==
  LET url == <<L(sendgrid_BASE_URL)>> \o path IN
  IF dryRun(a)
    THEN Return(DryRun(Req(method, url,
           ("Authorization" :> Mask)
           @@ ("Content-Type" :> <<L("application/json")>>), body)))
    ELSE Fetch(Req(method, url,
           ("Authorization" :> <<L("Bearer "), V(e["SENDGRID_API_KEY"])>>)
           @@ ("Content-Type" :> <<L("application/json")>>), Stringify(body)), "api")

\* a field of an object literal: JSON.stringify leaves out an undefined value
OptFld(name, val) ==
  IF val.t = "undef" THEN <<>> ELSE <<Fld(name, <<Text(val)>>)>>

\* x.split(',').map(e => ({ email: e.trim() })) as the fields name[i].email
emails(name, chars) ==
  LET parts == split(chars, ",") IN
  [i \in 1..Len(parts) |-> Fld(name, <<C(trim(parts[i]))>>)]

\* main(): send (a one-level command), validate
sendgrid_main(a, c, sb, r, e) ==
  IF c = JsStr(W.send) THEN
    LET to == GetProp(a, W.to)
        cc == GetProp(a, W.cc)
        bcc == GetProp(a, W.bcc)
        tid == GetProp(a, W.template_id)
        tdata == GetProp(a, W.template_data)
        val(w) == IF Truthy(GetProp(a, w)) THEN <<GetProp(a, w)>> ELSE <<>>
    IN
    IF to.t = "undef" THEN Throw("Cannot read properties of undefined (reading 'split')")
    ELSE IF to.t # "str" THEN Throw("args.to.split is not a function")
    ELSE IF Truthy(tid) /\ Truthy(tdata) /\ ~jsonParses(tdata) THEN Throw("Unexpected token")
    ELSE IF Truthy(cc) /\ cc.t # "str" THEN Throw("args.cc.split is not a function")
    ELSE IF Truthy(bcc) /\ bcc.t # "str" THEN Throw("args.bcc.split is not a function")
    ELSE sendgrid_api(a, e, "POST", <<L("/mail/send")>>,
           Body(emails("personalizations[0].to[].email", to.v)
                \o OptFld("from.email", GetProp(a, W.from))
                \o OptFld("subject", GetProp(a, W.subject))
                \o (IF Truthy(tid)
                      THEN <<Fld("template_id", <<Text(tid)>>)>>
                           \o (IF Truthy(tdata)
                                 THEN <<Fld("personalizations[0].dynamic_template_data",
                                            <<Text(tdata)>>)>>
                                 ELSE <<>>)
                      ELSE [i \in 1..Len(val(W.text)) |->
                              Fld("content[].text/plain", <<Text(val(W.text)[i])>>)]
                           \o [i \in 1..Len(val(W.html)) |->
                                 Fld("content[].text/html", <<Text(val(W.html)[i])>>)])
                \o (IF Truthy(cc) THEN emails("personalizations[0].cc[].email", cc.v) ELSE <<>>)
                \o (IF Truthy(bcc) THEN emails("personalizations[0].bcc[].email", bcc.v) ELSE <<>>)
                \o (IF Truthy(GetProp(a, W.reply_to))
                      THEN <<Fld("reply_to.email", <<Text(GetProp(a, W.reply_to))>>)>>
                      ELSE <<>>)))
  ELSE IF c = JsStr(W.validate) THEN
    IF sb = JsStr(W.email) THEN
      \* { email: args.email || rest[0] }
      LET email == IF Truthy(GetProp(a, W.email)) THEN GetProp(a, W.email)
                   ELSE IF Len(r) >= 1 THEN JsStr(r[1]) ELSE JsUndef
      IN sendgrid_api(a, e, "POST", <<L("/validations/email")>>, Body(OptFld("email", email)))
    ELSE sendgrid_api(a, e, "POST", <<L("/validations/email")>>, Body(OptFld("email", sb)))
  ELSE Return(UsageResult)

(***************************************************************************)
(* SEMrush (tools/clis/semrush.js)                                         *)
(***************************************************************************)
semrush_BASE_URL == "https://api.semrush.com/"

\* api(params): params are the pieces of the serialised URLSearchParams
semrush_api(a, e, params) ==
  IF dryRun(a)
    THEN Return(DryRun(Req("GET",
           <<L(semrush_BASE_URL), L("?")>> \o params
           \o <<L("&key="), L("***"), L("&export_escape=1")>>,
           <<>>, NoBody)))
    ELSE Fetch(Req("GET",
           <<L(semrush_BASE_URL), L("?")>> \o params
           \o <<L("&key="), V(e["SEMRUSH_API_KEY"]), L("&export_escape=1")>>,
           <<>>, NoBody), "semrush")

\* main(): domain overview
semrush_main(a, c, sb, r, e) ==
  IF c = JsStr(W.domain) THEN
    IF sb = JsStr(W.overview) THEN
      semrush_api(a, e,
        <<L("type=domain_ranks&export_columns=Db%2CDn%2CRk%2COr%2COt%2COc%2CAd%2CAt%2CAc&domain="),
          EncText(GetProp(a, W.domain))>>)
    ELSE Return(ErrorResult("Unknown domain subcommand. Use: overview, organic, competitors"))
  ELSE Return(UsageResult)

\* text.startsWith('ERROR')
startsWithERROR(chars) ==
  Len(chars) >= Len(W.ERROR) /\ SubSeq(chars, 1, Len(W.ERROR)) = W.ERROR

\* parseCSV(text): the rows as functions from the header cells
parseCSV(chars) ==
  LET lines == split(trim(chars), "\n") IN
  IF Len(lines) < 2 THEN <<>>
  ELSE LET headers == split(lines[1], ";")
           row(line) ==
             LET values == split(line, ";") IN
             [h \in {headers[j] : j \in 1..Len(headers)} |->
                LET j == CHOOSE k \in 1..Len(headers) :
                           headers[k] = h /\ \A m \in 1..Len(headers) : headers[m] = h => m <= k
                IN IF j <= Len(values) /\ values[j] # <<>> THEN values[j] ELSE <<>>]
           kept == SelectSeq(Tail(lines), LAMBDA l : trim(l) # <<>>)
       IN [i \in 1..Len(kept) |-> row(kept[i])]

Rows(rows) ==
  [kind |-> "rows", error |-> "", usage |-> FALSE, req |-> NoReq,
   status |-> 0, text |-> "", rows |-> rows]
ErrorText(chars, status) ==
  [kind |-> "error", error |-> "", usage |-> FALSE, req |-> NoReq,
   status |-> status, text |-> chars]

\* api(params) after its fetch
semrush_response(resp) ==
  IF ~resp.ok THEN ErrorText(trim(resp.text), resp.status)
  ELSE IF startsWithERROR(resp.text) THEN ErrorText(trim(resp.text), 0)
  ELSE Rows(parseCSV(resp.text))

(***************************************************************************)
(* Google Ads (tools/clis/google-ads.js)                                   *)
(***************************************************************************)
google_BASE_URL == "https://googleads.googleapis.com/v14"

\* api(method, path, body)
google_api(a, e, method, path, body) ==
  LET url == <<L(google_BASE_URL)>> \o path IN
  IF dryRun(a)
    THEN Return(DryRun(Req(method, url,
           ("Authorization" :> Mask) @@ ("developer-token" :> Mask)
           @@ ("Content-Type" :> <<L("application/json")>>), body)))
    ELSE Fetch(Req(method, url,
           ("Authorization" :> <<L("Bearer "), V(e["GOOGLE_ADS_TOKEN"])>>)
           @@ ("developer-token" :> <<V(e["GOOGLE_ADS_DEVELOPER_TOKEN"])>>)
           @@ ("Content-Type" :> <<L("application/json")>>), Stringify(body)), "api")

\* gaql(query)
gaql(a, e, query) ==
  google_api(a, e, "POST",
    <<L("/customers/"), V(e["GOOGLE_ADS_CUSTOMER_ID"]), L("/googleAds:searchStream")>>,
    Body(<<Fld("query", <<L(query)>>)>>))

\* main(): account (case 'info' shares the body of default), campaigns list
\* and pause
google_main(a, c, sb, r, e) ==
  IF c = JsStr(W.account) THEN
    gaql(a, e, "SELECT customer.id, customer.descriptive_name FROM customer")
  ELSE IF c = JsStr(W.campaigns) THEN
    IF sb = JsStr(W.list) THEN
      gaql(a, e, "SELECT campaign.id, campaign.name, campaign.status, campaign_budget.amount_micros FROM campaign ORDER BY campaign.id")
    ELSE IF sb = JsStr(W.pause) THEN
      IF ~Truthy(GetProp(a, W.id)) THEN Return(ErrorResult("--id required"))
      ELSE google_api(a, e, "POST",
             <<L("/customers/"), V(e["GOOGLE_ADS_CUSTOMER_ID"]), L("/campaigns:mutate")>>,
             Body(<<Fld("operations[0].update.resourceName",
                        <<L("customers/"), V(e["GOOGLE_ADS_CUSTOMER_ID"]),
                          L("/campaigns/"), Text(GetProp(a, W.id))>>),
                    Fld("operations[0].update.status", <<L("PAUSED")>>),
                    Fld("operations[0].updateMask", <<L("status")>>)>>))
    ELSE Return(ErrorResult("Unknown campaigns subcommand. Use: list, performance, pause, enable"))
  ELSE Return(UsageResult)

(***************************************************************************)
(* Plausible (tools/clis/plausible.js)                                     *)
(***************************************************************************)
\* process.env.PLAUSIBLE_BASE_URL || 'https://plausible.io'
plausible_BASE_URL(e) ==
  IF Present(e["PLAUSIBLE_BASE_URL"]) THEN V(e["PLAUSIBLE_BASE_URL"])
  ELSE L("https://plausible.io")

\* api(method, path, body) for the GET requests of main
plausible_api(a, e, method, path) ==
  LET url == <<plausible_BASE_URL(e)>> \o path
      rest_h == ("Content-Type" :> <<L("application/json")>>)
                @@ ("Accept" :> <<L("application/json")>>)
  IN IF dryRun(a)
       THEN Return(DryRun(Req(method, url, ("Authorization" :> Mask) @@ rest_h, NoBody)))
       ELSE Fetch(Req(method, url,
              ("Authorization" :> <<L("Bearer "), V(e["PLAUSIBLE_API_KEY"])>>) @@ rest_h,
              NoBody), "api")

\* main(): stats realtime, sites list
plausible_main(a, c, sb, r, e) ==
  LET siteId == GetProp(a, W.site_id) IN
  IF c = JsStr(W.stats) THEN
    IF ~Truthy(siteId)
      THEN Return(ErrorResult("--site-id required (your domain, e.g. example.com)"))
    ELSE IF sb = JsStr(W.realtime) THEN
      plausible_api(a, e, "GET",
        <<L("/api/v1/stats/realtime/visitors?site_id="), EncText(siteId)>>)
    ELSE Return(ErrorResult("Unknown stats subcommand. Use: aggregate, timeseries, pages, sources, countries, devices, utm, query, realtime"))
  ELSE IF c = JsStr(W.sites) THEN
    IF sb = JsStr(W.list) THEN plausible_api(a, e, "GET", <<L("/api/v1/sites")>>)
    ELSE Return(ErrorResult("Unknown sites subcommand. Use: list, get, create, delete"))
  ELSE Return(UsageResult)

main(t, a, c, sb, r, e, ct, time) ==
  CASE t = "klaviyo" -> klaviyo_main(a, c, sb, r, e)
    [] t = "demio" -> demio_main(a, c, sb, r, e)
    [] t = "hotjar" -> hotjar_main(a, c, sb, r, e, ct)
    [] t = "trustpilot" -> trustpilot_main(a, c, sb, r, e, ct)
    [] t = "kit" -> kit_main(a, c, sb, r, e)
    [] t = "mixpanel" -> mixpanel_main(a, c, sb, r, e, time)
    [] t = "buffer" -> buffer_main(a, c, sb, r, e)
    [] t = "meta-ads" -> meta_main(a, c, sb, r, e)
    [] t = "sendgrid" -> sendgrid_main(a, c, sb, r, e)
    [] t = "semrush" -> semrush_main(a, c, sb, r, e)
    [] t = "google-ads" -> google_main(a, c, sb, r, e)
    [] t = "plausible" -> plausible_main(a, c, sb, r, e)

(***************************************************************************)
(* Inputs of a run                                                         *)
(***************************************************************************)
\* every value of every variable the tool reads: unset, empty, or set
EnvChoices(t) ==
  {e \in [EnvVars(t) -> {UNSET, ""} \cup {ValueOf(n) : n \in EnvVars(t)}] :
     \A n \in EnvVars(t) : e[n] \in {UNSET, "", ValueOf(n)}}

RECURSIVE sel(_, _, _)
sel(line, S, i) ==
  IF i > Len(line) THEN <<>>
  ELSE (IF i \in S THEN <<line[i]>> ELSE <<>>) \o sel(line, S, i + 1)

\* the command lines obtained from a line by leaving tokens out
Subseqs(line) == {sel(line, S, 1) : S \in SUBSET (1..Len(line))}

\* command lines of each tool; a run takes any of them with any tokens left out
Lines(t) ==
  CASE t = "klaviyo" ->
         {<<W.profiles, W.get, Flag(W.id), W.x, Flag(W.dry_run)>>,
          <<W.profiles, W.create, Flag(W.email), W.x, Flag(W.dry_run)>>,
          <<W.profiles, W.list, Flag(W.filter), W.x, Flag(W.dry_run)>>,
          <<W.campaigns, W.list, Flag(W.page_size), W.x, Flag(W.dry_run)>>,
          <<W.lists, W.add_profiles, Flag(W.id), W.x, Flag(W.profiles), W.a_b, Flag(W.dry_run)>>,
          <<W.bogus, W.profiles, Flag(W.us), W.x, W.y>>}
    [] t = "demio" ->
         {<<W.ping, Flag(W.dry_run)>>,
          <<W.events, W.get, Flag(W.id), W.x, Flag(W.dry_run)>>}
    [] t = "hotjar" ->
         {<<W.sites, W.list, Flag(W.dry_run)>>,
          <<W.surveys, W.list, Flag(W.site_id), W.x, Flag(W.dry_run)>>}
    [] t = "trustpilot" ->
         {<<W.reviews, W.private, Flag(W.business_unit), W.x, Flag(W.dry_run)>>,
          <<W.reviews, W.latest, Flag(W.dry_run)>>,
          <<W.business, W.search, Flag(W.query), W.x, Flag(W.dry_run)>>}
    [] t = "kit" ->
         {<<W.subscribers, W.list, Flag(W.page), W.x, Flag(W.dry_run)>>,
          <<W.forms, W.list, Flag(W.dry_run)>>}
    [] t = "mixpanel" ->
         {<<W.funnels, W.get, Flag(W.funnel_id), W.x, Flag(W.dry_run)>>,
          <<W.query, W.events, Flag(W.project_id), W.x, Flag(W.from_date), W.y, Flag(W.dry_run)>>,
          <<W.profiles, W.set, Flag(W.distinct_id), W.x, Flag(W.dry_run)>>}
    [] t = "buffer" ->
         {<<W.updates, W.create, Flag(W.profile_ids), W.a_b, Flag(W.text), W.y, Flag(W.dry_run)>>,
          <<W.info, Flag(W.dry_run)>>}
    [] t = "meta-ads" ->
         {<<W.accounts, W.list, Flag(W.dry_run)>>,
          <<W.campaigns, W.list, Flag(W.account_id), W.x, Flag(W.dry_run)>>}
    [] t = "sendgrid" ->
         {<<W.send, Flag(W.to), W.x, Flag(W.from), W.y, Flag(W.dry_run)>>,
          <<W.send, Flag(W.to), W.x, Flag(W.template_id), Flag(W.template_data), W.x>>,
          <<W.send, Flag(W.to), W.x, Flag(W.template_id), Flag(W.template_data), W.obj>>,
          <<W.validate, W.email, Flag(W.email), W.x, Flag(W.dry_run)>>,
          <<W.validate, W.bogus, Flag(W.dry_run)>>}
    [] t = "semrush" ->
         {<<W.domain, W.overview, Flag(W.domain), W.x, Flag(W.dry_run)>>}
    [] t = "google-ads" ->
         {<<W.account, W.bogus, Flag(W.dry_run)>>,
          <<W.account, W.info, Flag(W.dry_run)>>,
          <<W.campaigns, W.pause, Flag(W.id), W.x, Flag(W.dry_run)>>,
          <<W.campaigns, W.list, Flag(W.dry_run)>>}
    [] t = "plausible" ->
         {<<W.stats, W.realtime, Flag(W.site_id), W.x, Flag(W.dry_run)>>,
          <<W.stats, W.bogus, Flag(W.site_id), W.x, Flag(W.dry_run)>>,
          <<W.sites, W.list, Flag(W.dry_run)>>}

ArgvChoices(t) ==
  {a \in UNION {Subseqs(l) : l \in Lines(t)} : Len(a) <= MaxArgs}

\* the tokens of the parser runs
ParseTokens == {EmptyStr, DD, Flag(W.a), Flag(W.b), Flag(W.us), W.x, W.y}

SeqsUpTo(S, n) == UNION {[1..k -> S] : k \in 0..n}

(***************************************************************************)
(* The run                                                                 *)
(***************************************************************************)
NotExited == -1
\* the days, counted from the first, on which a run may take place
Clock == {0, 1}
NotParsed == <<>>
NoPending == [cont |-> "", next |-> NoReq]

\* console.log(JSON.stringify(result, null, 2))
\* variant: console.log(result), the inspected object instead of its JSON text
Printed_raw(result) == [fmt |-> "inspect", val |-> result]
Printed(result) == [fmt |-> "json-pretty", val |-> result]

InitRun ==
  /\ pc = "start"
  /\ args = NotParsed
  /\ cmd = JsUndef
  /\ sub = JsUndef
  /\ rest = <<>>
  /\ stdout = <<>>
  /\ stderr = <<>>
  /\ exitCode = NotExited
  /\ net = <<>>
  /\ cachedToken = ""
  /\ pending = NoPending
  /\ steps = <<>>
  /\ resps = <<>>

Init ==
  /\ tool \in Tools
  /\ env \in EnvChoices(tool)
  /\ argv \in ArgvChoices(tool)
  /\ now \in Clock
  /\ InitRun

\* the credential gate at the top of the file
Gate ==
  /\ pc = "start"
  /\ LET g == gate(tool, env) IN
       /\ stderr' = stderr \o g.errs
       /\ IF g.exit
            THEN pc' = "exited" /\ exitCode' = 1
            ELSE pc' = "gated" /\ exitCode' = exitCode
  /\ steps' = Append(steps, "gate")
  /\ UNCHANGED <<tool, env, argv, now, resps, args, cmd, sub, rest, stdout, net,
                 cachedToken, pending>>

\* const args = parseArgs(process.argv.slice(2))
\* const [cmd, sub, ...rest] = args._
\* an exception here is outside main().catch: Node reports it and exits 1
ParseArgv ==
  /\ pc = "gated"
  /\ steps' = Append(steps, "parseArgs")
  /\ LET p == parseArgs(argv)
         d == destructure(p.obj[W.us])
     IN IF p.threw \/ d.threw
          THEN /\ pc' = "exited"
               /\ exitCode' = 1
               /\ stderr' = Append(stderr, StackTrace)
               /\ args' = IF p.threw THEN args ELSE p.obj
               /\ UNCHANGED <<cmd, sub, rest>>
          ELSE /\ pc' = "parsed"
               /\ args' = p.obj
               /\ cmd' = d.cmd
               /\ sub' = d.sub
               /\ rest' = d.rest
               /\ UNCHANGED <<exitCode, stderr>>
  /\ UNCHANGED <<tool, env, argv, now, resps, stdout, net, cachedToken, pending>>

\* variant: a main that exits with code 1 when its result is an {error}
Main_errorExit1 ==
  /\ pc = "parsed"
  /\ steps' = Append(steps, "main")
  /\ LET o == main(tool, args, cmd, sub, rest, env, cachedToken, now) IN
       CASE o.k = "return" ->
              /\ stdout' = Append(stdout, Printed(o.result))
              /\ pc' = "exited"
              /\ exitCode' = IF o.result.kind = "error" THEN 1 ELSE 0
              /\ UNCHANGED <<stderr, net, pending>>
         [] o.k = "throw" ->
              /\ stderr' = Append(stderr, ErrLine(o.msg))
              /\ pc' = "exited"
              /\ exitCode' = 1
              /\ UNCHANGED <<stdout, net, pending>>
         [] o.k = "fetch" ->
              /\ net' = Append(net, o.req)
              /\ pending' = [cont |-> o.cont, next |-> o.next]
              /\ pc' = "await"
              /\ UNCHANGED <<stdout, stderr, exitCode>>
  /\ UNCHANGED <<tool, env, argv, now, resps, args, cmd, sub, rest, cachedToken>>

\* main() up to its first await of a response, and main().catch
Main ==
  /\ pc = "parsed"
  /\ steps' = Append(steps, "main")
  /\ LET o == main(tool, args, cmd, sub, rest, env, cachedToken, now) IN
       CASE o.k = "return" ->
              /\ stdout' = Append(stdout, Printed(o.result))
              /\ pc' = "exited"
              /\ exitCode' = 0
              /\ UNCHANGED <<stderr, net, pending>>
         [] o.k = "throw" ->
              /\ stderr' = Append(stderr, ErrLine(o.msg))
              /\ pc' = "exited"
              /\ exitCode' = 1
              /\ UNCHANGED <<stdout, net, pending>>
         [] o.k = "fetch" ->
              /\ net' = Append(net, o.req)
              /\ pending' = [cont |-> o.cont, next |-> o.next]
              /\ pc' = "await"
              /\ UNCHANGED <<stdout, stderr, exitCode>>
  /\ UNCHANGED <<tool, env, argv, now, resps, args, cmd, sub, rest, cachedToken>>

\* responses of the remote service
RespJson == [status |-> 200, ok |-> TRUE, json |-> TRUE, access_token |-> "",
             text |-> <<"{", "}">>]
RespApiError == [status |-> 401, ok |-> FALSE, json |-> TRUE, access_token |-> "",
                 text |-> <<"{", "\"", "e", "\"", ":", "1", "}">>]
RespHtml == [status |-> 502, ok |-> FALSE, json |-> FALSE, access_token |-> "",
             text |-> <<"<", "h", "t", "m", "l", ">">>]
RespToken == [status |-> 200, ok |-> TRUE, json |-> TRUE, access_token |-> "tok-1",
              text |-> <<"{", "\"", "a", "c", "c", "e", "s", "s", "_", "t", "o", "k", "e", "n", "\"", ":", "\"", "t", "o", "k", "-", "1", "\"", "}">>]
RespCsv == [status |-> 200, ok |-> TRUE, json |-> FALSE, access_token |-> "",
            text |-> <<"D", "b", ";", "D", "n", "\n", "u", "s", ";", "x", "\n">>]
RespErrorText == [status |-> 200, ok |-> TRUE, json |-> FALSE, access_token |-> "",
                  text |-> <<"E", "R", "R", "O", "R", " ", "5", "0", " ", ":", ":", " ", "N", "O", "T", "H", "I", "N", "G", " ", "F", "O", "U", "N", "D", "\n">>]
Responses == {RespJson, RespApiError, RespHtml, RespToken, RespCsv, RespErrorText}

\* const text = await res.text(); try { return JSON.parse(text) }
\* catch { return { status: res.status, body: text } }
apiResponse(resp) ==
  IF resp.json THEN Parsed(resp.text) ELSE StatusBody(resp.status, resp.text)

\* variant: the handler consumes the positional tokens of args._
Respond_shifting ==
  /\ pc = "await"
  /\ pending.cont \in {"api", "semrush"}
  /\ \E resp \in Responses :
       /\ resps' = Append(resps, resp)
       /\ stdout' = Append(stdout, Printed(IF pending.cont = "semrush"
                                             THEN semrush_response(resp)
                                             ELSE apiResponse(resp)))
  /\ pc' = "exited"
  /\ exitCode' = 0
  /\ pending' = NoPending
  /\ steps' = Append(steps, "response")
  /\ args' = SetProp(args, W.us, JsArr(<<>>))
  /\ UNCHANGED <<tool, env, argv, now, cmd, sub, rest, stderr, net, cachedToken>>

\* the awaited fetch of api() resolves; main prints the result
Respond ==
  /\ pc = "await"
  /\ pending.cont \in {"api", "semrush"}
  /\ \E resp \in Responses :
       /\ resps' = Append(resps, resp)
       /\ stdout' = Append(stdout, Printed(IF pending.cont = "semrush"
                                             THEN semrush_response(resp)
                                             ELSE apiResponse(resp)))
  /\ pc' = "exited"
  /\ exitCode' = 0
  /\ pending' = NoPending
  /\ steps' = Append(steps, "response")
  /\ UNCHANGED <<tool, env, argv, now, args, cmd, sub, rest, stderr, net, cachedToken>>

\* getToken() / getAccessToken() after the awaited token fetch
tokenResponse(cont, resp) ==
  IF cont = "hotjar_token" THEN hotjar_getToken(resp)
  ELSE trustpilot_getAccessToken(resp)

\* variant: the fetched token is used for the request but not kept
TokenRespond_noCache ==
  /\ pc = "await"
  /\ pending.cont \in {"hotjar_token", "trustpilot_token"}
  /\ steps' = Append(steps, "token")
  /\ \E resp \in Responses :
       /\ resps' = Append(resps, resp)
       /\ LET o == tokenResponse(pending.cont, resp) IN
           IF o.k = "token"
             THEN /\ net' = Append(net, withToken(pending.next, o.token))
                  /\ pending' = [cont |-> "api", next |-> NoReq]
                  /\ pc' = "await"
                  /\ UNCHANGED <<stdout, stderr, exitCode>>
             ELSE /\ stderr' = Append(stderr, ErrLine(o.msg))
                  /\ pc' = "exited"
                  /\ exitCode' = 1
                  /\ pending' = NoPending
                  /\ UNCHANGED <<stdout, net>>
  /\ UNCHANGED <<tool, env, argv, now, args, cmd, sub, rest, cachedToken>>

\* the awaited token fetch resolves: the token is cached and the resource
\* request is sent, or the failure is raised (Hotjar) or returned (Trustpilot)
TokenRespond ==
  /\ pc = "await"
  /\ pending.cont \in {"hotjar_token", "trustpilot_token"}
  /\ steps' = Append(steps, "token")
  /\ \E resp \in Responses :
       /\ resps' = Append(resps, resp)
       /\ LET o == tokenResponse(pending.cont, resp) IN
           CASE o.k = "token" ->
                  /\ cachedToken' = o.token
                  /\ net' = Append(net, withToken(pending.next, o.token))
                  /\ pending' = [cont |-> "api", next |-> NoReq]
                  /\ pc' = "await"
                  /\ UNCHANGED <<stdout, stderr, exitCode>>
             [] o.k = "null" ->
                  /\ stdout' = Append(stdout, Printed(ErrorResult(o.msg)))
                  /\ pc' = "exited"
                  /\ exitCode' = 0
                  /\ pending' = NoPending
                  /\ UNCHANGED <<stderr, net, cachedToken>>
             [] o.k = "throw" ->
                  /\ stderr' = Append(stderr, ErrLine(o.msg))
                  /\ pc' = "exited"
                  /\ exitCode' = 1
                  /\ pending' = NoPending
                  /\ UNCHANGED <<stdout, net, cachedToken>>
  /\ UNCHANGED <<tool, env, argv, now, args, cmd, sub, rest>>

\* variant: a rejected fetch is sent again before the failure is reported
NetworkFail_retry ==
  /\ pc = "await"
  /\ IF Len(net) < 3
       THEN /\ net' = Append(net, net[Len(net)])
            /\ UNCHANGED <<stderr, pc, exitCode, pending>>
       ELSE /\ stderr' = Append(stderr, ErrLine("fetch failed"))
            /\ pc' = "exited"
            /\ exitCode' = 1
            /\ pending' = NoPending
            /\ net' = net
  /\ steps' = Append(steps, "reject")
  /\ UNCHANGED <<tool, env, argv, now, resps, args, cmd, sub, rest, stdout, cachedToken>>

\* the awaited fetch rejects (network failure): main().catch
NetworkFail ==
  /\ pc = "await"
  /\ stderr' = Append(stderr, ErrLine("fetch failed"))
  /\ pc' = "exited"
  /\ exitCode' = 1
  /\ pending' = NoPending
  /\ steps' = Append(steps, "reject")
  /\ UNCHANGED <<tool, env, argv, now, resps, args, cmd, sub, rest, stdout, net, cachedToken>>

Next == Gate \/ ParseArgv \/ Main \/ TokenRespond \/ Respond \/ NetworkFail

Spec == Init /\ [][Next]_vars

(***************************************************************************)
(* Parser runs: the Klaviyo tool with its key set, on every token sequence *)
(***************************************************************************)
InitParse ==
  /\ tool = "klaviyo"
  /\ env = [n \in EnvVars("klaviyo") |-> ValueOf(n)]
  /\ argv \in SeqsUpTo(ParseTokens, MaxLen)
  /\ now \in Clock
  /\ InitRun

NextParse == Gate \/ ParseArgv

SpecParse == InitParse /\ [][NextParse]_vars

(***************************************************************************)
(* Properties                                                              *)
(***************************************************************************)
\* parseArgs has been called / has returned its result
ParseRan == \E i \in 1..Len(steps) : steps[i] = "parseArgs"
ParseReturned == args # NotParsed

\* the token at i is the last one that defines its flag name
LastOfKey(a, i) ==
  \A j \in (i + 1)..Len(a) : ~(startsWith(a[j]) /\ slice(a[j]) = slice(a[i]))

\* C1: pairing rule of parseArgs.  In the result every token beginning with
\* -- defines the flag named by the text after the prefix; its value is the
\* next token when there is one and it does not begin with --, and the
\* boolean true otherwise (a later token of the same name overrides).
C1_PairingRule ==
  ParseReturned =>
    \A i \in 1..Len(argv) :
      (startsWith(argv[i]) /\ LastOfKey(argv, i)) =>
        GetProp(args, slice(argv[i])) =
          (IF i + 1 <= Len(argv) /\ ~startsWith(argv[i + 1])
             THEN JsStr(argv[i + 1]) ELSE JsTrue)

\* C2: parseArgs is total.  Whenever parseArgs has been called on a token
\* sequence it has returned a result; it has no error path.
C2_ParserTotal == ParseRan => ParseReturned

\* the token at i was taken by the parser as the value of the flag before it
ConsumedAsValue(a, i) ==
  i > 1 /\ startsWith(a[i - 1]) /\ a[i] # EmptyStr /\ ~startsWith(a[i])

RECURSIVE positionalsFrom(_, _)
positionalsFrom(a, i) ==
  IF i > Len(a) THEN <<>>
  ELSE (IF ~startsWith(a[i]) /\ ~ConsumedAsValue(a, i) THEN <<a[i]>> ELSE <<>>)
       \o positionalsFrom(a, i + 1)

\* C3: positional rule of parseArgs.  The positional sequence _ of the
\* result holds exactly the tokens that neither begin with -- nor were
\* consumed as a flag's value, in their original order.
C3_Positionals ==
  ParseReturned => GetProp(args, W.us) = JsArr(positionalsFrom(argv, 1))

(***************************************************************************)
(* The credential gate                                                     *)
(***************************************************************************)
\* the variables the gate of a tool tests, as the alternatives it accepts:
\* the gate lets the run pass when all variables of one alternative are set
GateAlternatives(t) ==
  CASE t = "klaviyo" -> {{"KLAVIYO_API_KEY"}}
    [] t = "demio" -> {{"DEMIO_API_KEY", "DEMIO_API_SECRET"}}
    [] t = "trustpilot" -> {{"TRUSTPILOT_API_KEY"}}
    [] t = "kit" -> {{"KIT_API_SECRET"}, {"KIT_API_KEY"}}
    [] t = "mixpanel" -> {{"MIXPANEL_TOKEN"}, {"MIXPANEL_API_KEY"}}
    [] t = "hotjar" -> {{"HOTJAR_CLIENT_ID", "HOTJAR_CLIENT_SECRET"}}
    [] t = "buffer" -> {{"BUFFER_API_KEY"}}
    [] t = "meta-ads" -> {{"META_ACCESS_TOKEN"}}
    [] t = "sendgrid" -> {{"SENDGRID_API_KEY"}}
    [] t = "semrush" -> {{"SEMRUSH_API_KEY"}}
    [] t = "google-ads" -> {{"GOOGLE_ADS_TOKEN", "GOOGLE_ADS_DEVELOPER_TOKEN",
                             "GOOGLE_ADS_CUSTOMER_ID"}}
    [] t = "plausible" -> {{"PLAUSIBLE_API_KEY"}}

GateRequirementMet(t, e) ==
  \E alt \in GateAlternatives(t) : \A n \in alt : Present(e[n])

\* the credential variables a tool reads to authenticate its requests
AuthVars(t) ==
  CASE t = "trustpilot" -> {"TRUSTPILOT_API_KEY", "TRUSTPILOT_API_SECRET"}
    [] t = "mixpanel" -> {"MIXPANEL_TOKEN", "MIXPANEL_API_KEY", "MIXPANEL_SECRET"}
    [] t = "google-ads" -> {"GOOGLE_ADS_TOKEN", "GOOGLE_ADS_DEVELOPER_TOKEN"}
    [] t = "meta-ads" -> {"META_ACCESS_TOKEN"}
    [] t = "plausible" -> {"PLAUSIBLE_API_KEY"}
    [] OTHER -> EnvVars(t)

GateRan == Len(steps) >= 1
MainRan == \E i \in 1..Len(steps) : steps[i] = "main"
PastGate == pc = "gated" \/ ParseRan

\* C4: credential gate.  When the variables the gate of the tool requires
\* are not all set (unset or empty), the run ends at the gate: exactly one
\* single-line JSON error object is on standard error, the exit code is 1,
\* parseArgs has not run, no request has been issued and nothing is on
\* standard output.
C4_CredentialGate ==
  (GateRan /\ ~GateRequirementMet(tool, env)) =>
    /\ pc = "exited"
    /\ exitCode = 1
    /\ Len(stderr) = 1
    /\ stderr[1].fmt = "json-line"
    /\ steps = <<"gate">>
    /\ net = <<>>
    /\ stdout = <<>>

\* Demio with its key set and its secret missing has stopped at the gate
C4_Witness ==
  /\ tool = "demio"
  /\ Present(env["DEMIO_API_KEY"])
  /\ ~Present(env["DEMIO_API_SECRET"])
  /\ pc = "exited"
  /\ stderr = <<ErrLine("DEMIO_API_SECRET environment variable required")>>

HasToken(a, tok) == \E i \in 1..Len(a) : a[i] = tok

\* the values of environment variables that a text contains
RECURSIVE envValues(_)
envValues(pieces) ==
  IF pieces = <<>> THEN {}
  ELSE LET p == Head(pieces) IN
       (CASE p.k = "env" -> {p.s}
          [] p.k = "b64" -> envValues(p.v)
          [] OTHER -> {})
       \cup envValues(Tail(pieces))

\* the names of the headers that carry a credential in the requests
CredentialHeaders ==
  {"Authorization", "Api-Key", "Api-Secret", "apikey", "developer-token"}

DryRunPrinted(i) == i \in 1..Len(stdout) /\ stdout[i].val.kind = "dry_run"

\* C6: dry-run issues no network call.  Whenever the token --dry-run is in
\* argv, no request is issued during the run, the token fetch of Hotjar and
\* Trustpilot included.
C6_DryRunNoNetwork ==
  HasToken(argv, Flag(W.dry_run)) => net = <<>>

\* Hotjar and Trustpilot have printed the descriptor of a bearer request
C6_Witness ==
  /\ HasToken(argv, Flag(W.dry_run))
  /\ \/ tool = "hotjar"
     \/ tool = "trustpilot" /\ sub = JsStr(W.private)
  /\ DryRunPrinted(1)
  /\ stdout[1].val.req.headers["Authorization"] = Mask
  /\ pc = "exited"

\* C7: masking invariant.  In every dry-run descriptor printed, no header
\* value contains the value of an environment variable, and every header
\* that carries a credential is the mask token.
C7_Masking ==
  \A i \in 1..Len(stdout) :
    DryRunPrinted(i) =>
      LET h == stdout[i].val.req.headers IN
      \A name \in DOMAIN h :
        /\ envValues(h[name]) = {}
        /\ name \in CredentialHeaders => h[name] = Mask

\* a Klaviyo descriptor with its Authorization header masked, for a key set
C7_Witness ==
  /\ tool = "klaviyo"
  /\ env["KLAVIYO_API_KEY"] = ValueOf("KLAVIYO_API_KEY")
  /\ DryRunPrinted(1)
  /\ stdout[1].val.req.headers["Authorization"] = Mask

(***************************************************************************)
(* Validation and dispatch                                                 *)
(***************************************************************************)
\* the flags the usage text of a tool documents as required for a handler
RequiredFlags(t, c, sb) ==
  CASE t = "klaviyo" /\ c = JsStr(W.profiles) /\ sb = JsStr(W.get) -> {W.id}
    [] t = "klaviyo" /\ c = JsStr(W.profiles) /\ sb = JsStr(W.create) -> {W.email}
    [] t = "klaviyo" /\ c = JsStr(W.campaigns) /\ sb = JsStr(W.get) -> {W.id}
    [] t = "klaviyo" /\ c = JsStr(W.lists) /\ sb = JsStr(W.add_profiles) -> {W.id, W.profiles}
    [] t = "demio" /\ c = JsStr(W.events) /\ sb = JsStr(W.get) -> {W.id}
    [] t = "hotjar" /\ c = JsStr(W.surveys) /\ sb = JsStr(W.list) -> {W.site_id}
    [] t = "trustpilot" /\ c = JsStr(W.business) /\ sb = JsStr(W.search) -> {W.query}
    [] t = "mixpanel" /\ c = JsStr(W.funnels) /\ sb = JsStr(W.get) -> {W.funnel_id}
    [] t = "mixpanel" /\ c = JsStr(W.query) /\ sb = JsStr(W.events) -> {W.project_id}
    [] t = "mixpanel" /\ c = JsStr(W.profiles) /\ sb = JsStr(W.set) -> {W.distinct_id}
    [] t = "buffer" /\ c = JsStr(W.updates) /\ sb = JsStr(W.create) -> {W.profile_ids, W.text}
    [] t = "sendgrid" /\ c = JsStr(W.send) -> {W.from, W.to, W.subject, W.html}
    [] t = "semrush" /\ c = JsStr(W.domain) /\ sb = JsStr(W.overview) -> {W.domain}
    [] t = "plausible" /\ c = JsStr(W.stats) /\ sb = JsStr(W.realtime) -> {W.site_id}
    [] OTHER -> {}

\* the flags an error message of the handlers names
FlagsNamed(msg) ==
  CASE msg = "--id required" -> {W.id}
    [] msg = "--id required (list ID)" -> {W.id}
    [] msg = "--profiles required (comma-separated profile IDs)" -> {W.profiles}
    [] msg = "--email required" -> {W.email}
    [] msg = "--site-id required" -> {W.site_id}
    [] msg = "--site-id required (your domain, e.g. example.com)" -> {W.site_id}
    [] msg = "--query required" -> {W.query}
    [] msg = "--funnel-id required" -> {W.funnel_id}
    [] msg = "--project-id required" -> {W.project_id}
    [] msg = "--distinct-id required" -> {W.distinct_id}
    [] msg = "--profile-ids required (comma-separated)" -> {W.profile_ids}
    [] msg = "--text required" -> {W.text}
    [] msg = "--account-id required (or set META_AD_ACCOUNT_ID)" -> {W.account_id}
    [] msg = "--survey-id required" -> {W.survey_id}
    [] msg = "--business-unit or TRUSTPILOT_BUSINESS_UNIT_ID required" -> {W.business_unit}
    [] OTHER -> {}

OmittedFlags(t, c, sb, a) ==
  {f \in RequiredFlags(t, c, sb) : ~HasToken(a, Flag(f))}

\* C8: missing required flag.  When a handler has run with a documented
\* required flag omitted from argv, the run has printed on standard output
\* one {error} object that names an omitted flag, has exit code 0 and has
\* issued no request.
C8_MissingRequiredFlag ==
  (MainRan /\ OmittedFlags(tool, cmd, sub, argv) # {}) =>
    /\ pc = "exited"
    /\ exitCode = 0
    /\ net = <<>>
    /\ stderr = <<>>
    /\ Len(stdout) = 1
    /\ stdout[1].val.kind = "error"
    /\ FlagsNamed(stdout[1].val.error) \cap OmittedFlags(tool, cmd, sub, argv) # {}

\* the commands of the switch of main that the model dispatches
KnownCommands(t) ==
  CASE t = "klaviyo" -> {W.profiles, W.campaigns, W.lists}
    [] t = "demio" -> {W.ping, W.events}
    [] t = "hotjar" -> {W.sites, W.surveys}
    [] t = "trustpilot" -> {W.business, W.reviews}
    [] t = "kit" -> {W.subscribers, W.forms}
    [] t = "mixpanel" -> {W.funnels, W.query, W.profiles}
    [] t = "buffer" -> {W.updates, W.info}
    [] t = "meta-ads" -> {W.accounts, W.campaigns}
    [] t = "sendgrid" -> {W.send, W.validate}
    [] t = "semrush" -> {W.domain}
    [] t = "google-ads" -> {W.account, W.campaigns}
    [] t = "plausible" -> {W.stats, W.sites}

\* the commands that switch on the second positional token, with the
\* subcommands among the tokens of the runs and the message of the default
\* branch; 'validate <email>' of SendGrid takes an address there and is left out
Subcommands(t, c) ==
  CASE t = "klaviyo" /\ c = W.profiles -> {W.list, W.get, W.create}
    [] t = "klaviyo" /\ c = W.campaigns -> {W.list, W.get}
    [] t = "klaviyo" /\ c = W.lists -> {W.add_profiles}
    [] t = "demio" /\ c = W.events -> {W.get}
    [] t = "hotjar" /\ c = W.sites -> {W.list}
    [] t = "hotjar" /\ c = W.surveys -> {W.list, W.responses}
    [] t = "trustpilot" /\ c = W.business -> {W.search}
    [] t = "trustpilot" /\ c = W.reviews -> {W.private, W.latest}
    [] t = "kit" /\ c = W.subscribers -> {W.list}
    [] t = "kit" /\ c = W.forms -> {W.list}
    [] t = "mixpanel" /\ c = W.funnels -> {W.get}
    [] t = "mixpanel" /\ c = W.query -> {W.events}
    [] t = "mixpanel" /\ c = W.profiles -> {W.set}
    [] t = "buffer" /\ c = W.updates -> {W.create}
    [] t = "meta-ads" /\ c = W.accounts -> {W.list}
    [] t = "meta-ads" /\ c = W.campaigns -> {W.list}
    [] t = "semrush" /\ c = W.domain -> {W.overview}
    [] t = "google-ads" /\ c = W.account -> {W.info}
    [] t = "google-ads" /\ c = W.campaigns -> {W.list, W.pause}
    [] t = "plausible" /\ c = W.stats -> {W.realtime}
    [] t = "plausible" /\ c = W.sites -> {W.list}
    [] OTHER -> {}

TwoLevel(t) == {c \in KnownCommands(t) : Subcommands(t, c) # {}}

\* the positional tokens of argv by the positional rule
Positionals == positionalsFrom(argv, 1)

\* the run has ended after the gate let it pass
Dispatched == pc = "exited" /\ GateRequirementMet(tool, env)

\* C9: unknown primary command.  When the first positional token is absent
\* or is not a known command, the run does not throw: it prints the
\* {error, usage} object on standard output, issues no request and exits 0.
C9_UnknownCommand ==
  (Dispatched /\ (Positionals = <<>> \/ Positionals[1] \notin KnownCommands(tool))) =>
    /\ exitCode = 0
    /\ stderr = <<>>
    /\ net = <<>>
    /\ stdout = <<Printed(UsageResult)>>

\* C10: unknown subcommand.  When the first positional token is a two-level
\* command and the second is absent or not one of its subcommands, the run
\* prints an {error} object on standard output and issues no request.
C10_UnknownSubcommand ==
  (/\ PastGate /\ pc # "gated" /\ pc # "parsed"
   /\ Positionals # <<>>
   /\ Positionals[1] \in TwoLevel(tool)
   /\ (Len(Positionals) < 2 \/ Positionals[2] \notin Subcommands(tool, Positionals[1]))) =>
    /\ net = <<>>
    /\ Len(stdout) = 1
    /\ stdout[1].val.kind = "error"

(***************************************************************************)
(* Errors, exit codes and the output streams                               *)
(***************************************************************************)
\* C11: top-level error boundary.  A run that got past the gate and ended
\* with an exception has written to standard error exactly one single-line
\* JSON object {error}, printed by the top-level handler, with exit code 1;
\* no run ends with an unhandled exception or other text on standard error.
C11_ErrorBoundary ==
  (pc = "exited" /\ PastGate /\ exitCode # 0) =>
    /\ exitCode = 1
    /\ Len(stderr) = 1
    /\ stderr[1].fmt = "json-line"
    /\ stdout = <<>>

\* the run ended with an exception: caught by main().catch, or raised at
\* module top level where Node reports it
Raised ==
  /\ PastGate
  /\ \E i \in 1..Len(stderr) : stderr[i].fmt \in {"json-line", "stack-trace"}

OAuthTools == {"hotjar", "trustpilot"}

\* the request is the token fetch of the tool of the run
IsTokenRequest(req) ==
  \/ tool = "hotjar" /\ req = hotjar_tokenRequest(env)
  \/ tool = "trustpilot" /\ req = trustpilot_tokenRequest(env)

TokenRequests == {i \in 1..Len(net) : IsTokenRequest(net[i])}
ResourceRequests == {i \in 1..Len(net) : ~IsTokenRequest(net[i])}
StepDone(name) == \E i \in 1..Len(steps) : steps[i] = name

C14_NonJsonResponse ==
  \A i \in 1..Len(resps) :
    ~resps[i].json =>
      /\ stderr = <<>>
      /\ pc = "exited" =>
           stdout = <<Printed(StatusBody(resps[i].status, resps[i].text))>>

\* C15: token-fetch failure.  In Hotjar and Trustpilot, when the token
\* response is JSON without an access_token, the run ends with one {error}
\* result on standard output, no exception is raised and the resource
\* request is not sent.
C15_TokenFetchFailure ==
  (StepDone("token") /\ resps[1].json /\ resps[1].access_token = "") =>
    /\ pc = "exited"
    /\ exitCode = 0
    /\ stderr = <<>>
    /\ Len(stdout) = 1
    /\ stdout[1].val.kind = "error"
    /\ ResourceRequests = {}

\* a token-fetch request is appended to the network log by this step
TokenFetchIssued ==
  /\ Len(net') = Len(net) + 1
  /\ IsTokenRequest(net'[Len(net')])

\* this step is the resolution of a token fetch whose answer carries a token
TokenFetchSucceeded ==
  /\ pc = "await"
  /\ pending.cont \in {"hotjar_token", "trustpilot_token"}
  /\ Len(resps') = Len(resps) + 1
  /\ resps'[Len(resps')].json
  /\ resps'[Len(resps')].access_token # ""

\* C16: token cache.  In the OAuth-fronted tools the token slot starts empty,
\* a token-fetch request is issued only while the slot is empty, a successful
\* fetch fills the slot with the fetched token, and a filled slot is never
\* cleared or overwritten; the slot changes only on a successful fetch.
C16_TokenCache ==
  /\ cachedToken = ""
  /\ [][/\ TokenFetchIssued => cachedToken = ""
        /\ TokenFetchSucceeded =>
             (cachedToken' = resps'[Len(resps')].access_token /\ cachedToken' # "")
        /\ cachedToken # "" => cachedToken' = cachedToken
        /\ cachedToken' # cachedToken => TokenFetchSucceeded]_vars

C16_Witness ==
  /\ tool \in OAuthTools
  /\ cachedToken = "tok-1"
  /\ TokenRequests = {1}
  /\ Len(net) = 2
  /\ ~IsTokenRequest(net[2])
  /\ StepDone("response")

\* C17: dry-run idempotence.  A run that printed a dry-run descriptor would
\* have printed the same descriptor, from the same argv and environment, at
\* every other time of the clock.
C17_DryRunIdempotent ==
  DryRunPrinted(1) =>
    \A t2 \in Clock :
      main(tool, args, cmd, sub, rest, env, cachedToken, t2) = Return(stdout[1].val)

\* the parsed arguments of the same command line without --dry-run
LiveArgs == [k \in DOMAIN args \ {W.dry_run} |-> args[k]]

\* what main() does on the live path, and the resource request it sends
\* (after the token fetch, in the OAuth-fronted tools)
LiveOutcome == main(tool, LiveArgs, cmd, sub, rest, env, cachedToken, now)
LiveRequest == IF LiveOutcome.next # NoReq THEN LiveOutcome.next ELSE LiveOutcome.req

Masked(text) == \E i \in 1..Len(text) : text[i] = L("***")

\* C18: dry-run previews the live request.  A printed descriptor has the
\* method, the url and the body (as the JSON text of the payload) of the
\* request that the live path sends for the same arguments and environment,
\* its headers are the live ones or masked, and the live path does send a
\* request.
C18_DryRunPreviewsLive ==
  DryRunPrinted(1) =>
    LET d == stdout[1].val.req IN
    /\ LiveOutcome.k = "fetch"
    /\ d.method = LiveRequest.method
    /\ d.url = LiveRequest.url
    /\ (IF d.body.enc = "object" THEN Stringify(d.body) ELSE d.body) = LiveRequest.body
    /\ DOMAIN d.headers = DOMAIN LiveRequest.headers
    /\ \A h \in DOMAIN d.headers :
         d.headers[h] = LiveRequest.headers[h] \/ Masked(d.headers[h])

\* the results that JSON.stringify turns into a JSON text
JsonValues == {"error", "dry_run", "json", "status_body", "rows"}

\* C19: standard output carries exactly one pretty-printed JSON value.
\* Nothing is written to stdout before the output step, at most one value
\* is ever written, every value written is the 2-space JSON text of a
\* result, and a run that reached the output step (exit code 0) has written
\* exactly one.
C19_SingleJsonValue ==
  /\ Len(stdout) <= 1
  /\ stdout # <<>> => pc = "exited"
  /\ \A i \in 1..Len(stdout) :
       /\ stdout[i].fmt = "json-pretty"
       /\ stdout[i].val.kind \in JsonValues
  /\ (pc = "exited" /\ exitCode = 0) => Len(stdout) = 1

\* SEMrush has printed the rows parsed from a CSV answer
C19_Witness ==
  /\ tool = "semrush"
  /\ pc = "exited"
  /\ StepDone("response")
  /\ stdout = <<Printed(semrush_response(RespCsv))>>
  /\ stdout[1].val.kind = "rows"

\* C20: standard error is written if and only if the process exits with
\* code 1, and no run writes to both stderr and stdout.
C20_StderrIffExit1 ==
  /\ stderr # <<>> => pc = "exited"
  /\ pc = "exited" => (stderr # <<>> <=> exitCode = 1)
  /\ ~(stderr # <<>> /\ stdout # <<>>)

\* main().catch has reported a rejected fetch: stderr only, exit code 1
C20_Witness ==
  /\ pc = "exited"
  /\ StepDone("reject")
  /\ Len(stderr) = 1
  /\ stderr[1].fmt = "json-line"
  /\ stdout = <<>>
  /\ exitCode = 1

\* the tools of the model that have a 'campaigns list' handler, and their
\* fixed base URLs
CampaignsListTools == {"klaviyo", "meta-ads", "google-ads"}
BaseUrlOf(t) ==
  CASE t = "klaviyo" -> klaviyo_BASE_URL
    [] t = "meta-ads" -> meta_BASE_URL
    [] t = "google-ads" -> google_BASE_URL

\* C21: scenario 'campaigns list --dry-run'.  In every tool with a
\* 'campaigns list' handler, the run with exactly these tokens that passed
\* the gate prints one dry-run descriptor whose method is GET and whose url
\* is the tool's base URL followed by the path of the handler.
C21_CampaignsListDryRun ==
  (/\ tool \in CampaignsListTools
   /\ argv = <<W.campaigns, W.list, Flag(W.dry_run)>>
   /\ pc = "exited"
   /\ PastGate) =>
    /\ Len(stdout) = 1
    /\ DryRunPrinted(1)
    /\ stdout[1].val.req.method = "GET"
    /\ Len(stdout[1].val.req.url) >= 2
    /\ stdout[1].val.req.url[1] = L(BaseUrlOf(tool))

\* the handlers of the model that take a comma-separated flag, as pairs of
\* the flag and the field of the body that receives its items
CommaFlags(t, c, sb) ==
  CASE t = "klaviyo" /\ c = JsStr(W.lists) /\ sb = JsStr(W.add_profiles) ->
         {<<W.profiles, "data[].id">>}
    [] t = "buffer" /\ c = JsStr(W.updates) /\ sb = JsStr(W.create) ->
         {<<W.profile_ids, "profile_ids[]">>}
    [] t = "sendgrid" /\ c = JsStr(W.send) ->
         {<<W.to, "personalizations[0].to[].email">>,
          <<W.cc, "personalizations[0].cc[].email">>,
          <<W.bcc, "personalizations[0].bcc[].email">>}
    [] OTHER -> {}

\* the bodies of the requests built by the run: printed or sent
BuiltBodies ==
  {stdout[i].val.req.body : i \in {j \in 1..Len(stdout) : DryRunPrinted(j)}}
  \cup {net[i].body : i \in ResourceRequests}

\* the items of a field of a body, in the order of the body
ItemsOf(body, name) ==
  LET named(fld) == fld.f = name
      flds == SelectSeq(body.fields, named)
  IN [i \in 1..Len(flds) |-> flds[i].v[1].v]

RECURSIVE JoinItems(_)
JoinItems(items) ==
  IF items = <<>> THEN <<>>
  ELSE IF Len(items) = 1 THEN items[1]
  ELSE items[1] \o <<",">> \o JoinItems(Tail(items))

\* C22: comma-separated flags.  In every request built by a handler that
\* takes a comma-separated flag, the items placed in the body are the
\* comma-delimited parts of the flag's value in their order: no item holds a
\* comma, and joined by commas they give the value back.
C22_CommaSeparated ==
  \A pair \in CommaFlags(tool, cmd, sub) :
    \A body \in BuiltBodies :
      LET val == GetProp(args, pair[1])
          items == ItemsOf(body, pair[2])
      IN val.t = "str" =>
           /\ \A i \in 1..Len(items) : \A j \in 1..Len(items[i]) : items[i][j] # ","
           /\ JoinItems(items) = val.v

\* Klaviyo has sent 'lists add-profiles' with the two items of a,b in order
C22_Witness ==
  /\ tool = "klaviyo"
  /\ sub = JsStr(W.add_profiles)
  /\ GetProp(args, W.profiles) = JsStr(W.a_b)
  /\ Len(net) = 1
  /\ ItemsOf(net[1].body, "data[].id") = <<W.a, W.b>>

\* C23: validation failures are values, not exceptions.  An exception that
\* ends a run past the gate before any request was issued comes from parsing
\* a JSON-valued flag; in particular an absent flag, or a flag given without
\* a value, raises none.
C23_ValidationIsValue ==
  (pc = "exited" /\ Raised /\ net = <<>>) =>
    stderr = <<ErrLine("Unexpected token")>>

\* the flag names of a command line
FlagNames(a) == {slice(a[i]) : i \in {j \in 1..Len(a) : startsWith(a[j])}}

\* C24: parser output types.  In every result of parseArgs each flag is
\* bound to the boolean true or to a string, which is a token of argv as it
\* was given (no coercion); every flag name of argv is bound, whatever it
\* is (no validation), and nothing else is bound but the positional list.
C24_ParserTypes ==
  ParseReturned =>
    /\ DOMAIN args = FlagNames(argv) \cup {W.us}
    /\ \A key \in FlagNames(argv) :
         \/ args[key] = JsTrue
         \/ /\ args[key].t = "str"
            /\ \E i \in 1..Len(argv) : args[key] = JsStr(argv[i])
    /\ W.us \notin FlagNames(argv) => args[W.us].t = "arr"

\* one flag bound to a string and another to true
C24_Witness ==
  /\ ParseReturned
  /\ GetProp(args, W.a) = JsStr(W.x)
  /\ GetProp(args, W.b) = JsTrue

\* the resource requests that carry a bearer token
BearerRequests ==
  {i \in ResourceRequests :
     /\ "Authorization" \in DOMAIN net[i].headers
     /\ net[i].headers["Authorization"][1] = L("Bearer ")}

\* C25: token fetch ordering.  In the OAuth-fronted tools a bearer resource
\* request is issued only after the token fetch has completed, it carries
\* the token that this fetch obtained, and no resource request is issued
\* when the fetch yielded no token.
C25_TokenFetchOrdering ==
  tool \in OAuthTools =>
    /\ \A i \in BearerRequests :
         /\ TokenRequests = {1}
         /\ i = 2
         /\ StepDone("token")
         /\ Len(resps) >= 1
         /\ resps[1].json /\ resps[1].access_token # ""
         /\ net[i].headers["Authorization"] = <<L("Bearer "), L(resps[1].access_token)>>
    /\ (StepDone("token") /\ (~resps[1].json \/ resps[1].access_token = "")) =>
         ResourceRequests = {}
    /\ (TokenRequests # {} /\ ~StepDone("token")) => ResourceRequests = {}

\* Trustpilot has sent the private reviews request with the fetched token
C25_Witness ==
  /\ tool = "trustpilot"
  /\ sub = JsStr(W.private)
  /\ Len(net) = 2
  /\ BearerRequests = {2}
  /\ net[2].headers["Authorization"] = <<L("Bearer "), L("tok-1")>>
  /\ resps[1] = RespToken

C27_ArgsImmutable ==
  [][ParseReturned =>
       /\ args' = args
       /\ cmd' = cmd /\ sub' = sub /\ rest' = rest]_vars

\* a run that went through the handler and the response with its arguments
C27_Witness ==
  /\ ParseReturned
  /\ MainRan
  /\ StepDone("response")
  /\ args = parseArgs(argv).obj
  /\ DOMAIN args # {W.us}

\* the values of environment variables that a body contains
BodyEnvValues(body) ==
  UNION {envValues(body.fields[i].v) : i \in 1..Len(body.fields)}

\* the values of the tool's credentials that are set
CredentialValues == {env[n] : n \in {m \in AuthVars(tool) : Present(env[m])}}

\* C28: no credential in dry-run output.  No printed descriptor contains the
\* value of a credential of the environment, in its url, its headers or its
\* body.
C28_NoCredentialInDryRun ==
  \A i \in 1..Len(stdout) :
    DryRunPrinted(i) =>
      LET d == stdout[i].val.req IN
      /\ envValues(d.url) \cap CredentialValues = {}
      /\ \A h \in DOMAIN d.headers : envValues(d.headers[h]) \cap CredentialValues = {}
      /\ BodyEnvValues(d.body) \cap CredentialValues = {}

\* the credentials that the operations of the tools with alternative
\* credentials authenticate with
OwnCredentials(t, c, sb) ==
  CASE t = "kit" /\ c = JsStr(W.subscribers) /\ sb = JsStr(W.list) -> {"KIT_API_SECRET"}
    [] t = "kit" /\ c = JsStr(W.forms) /\ sb = JsStr(W.list) -> {"KIT_API_KEY"}
    [] t = "trustpilot" /\ c = JsStr(W.reviews) /\ sb = JsStr(W.private) ->
         {"TRUSTPILOT_API_KEY", "TRUSTPILOT_API_SECRET"}
    [] t = "trustpilot" /\ c = JsStr(W.reviews) /\ sb = JsStr(W.latest) -> {"TRUSTPILOT_API_KEY"}
    [] t = "trustpilot" /\ c = JsStr(W.business) /\ sb = JsStr(W.search) -> {"TRUSTPILOT_API_KEY"}
    [] t = "mixpanel" /\ c = JsStr(W.profiles) /\ sb = JsStr(W.set) -> {"MIXPANEL_TOKEN"}
    [] t = "mixpanel" /\ c = JsStr(W.query) /\ sb = JsStr(W.events) ->
         {"MIXPANEL_API_KEY", "MIXPANEL_SECRET"}
    [] t = "mixpanel" /\ c = JsStr(W.funnels) /\ sb = JsStr(W.get) ->
         {"MIXPANEL_API_KEY", "MIXPANEL_SECRET"}
    [] OTHER -> {}

OwnCredentialAbsent ==
  \E n \in OwnCredentials(tool, cmd, sub) : ~Present(env[n])

\* C29: secondary credentials.  In Trustpilot, Kit and Mixpanel, a live
\* operation whose own credential is absent ends with an {error} result on
\* stdout, and no request is ever on the network without the credential of
\* its operation.
C29_SecondaryCredentials ==
  (MainRan /\ OwnCredentialAbsent) =>
    /\ net = <<>>
    /\ ~HasToken(argv, Flag(W.dry_run)) =>
         /\ pc = "exited"
         /\ Len(stdout) = 1
         /\ stdout[1].val.kind = "error"
         /\ stderr = <<>>

\* a command line with the pair --name value inserted after its first pos
\* tokens
InsertPair(a, pos, name, value) ==
  SubSeq(a, 1, pos) \o <<Flag(name), value>> \o SubSeq(a, pos + 1, Len(a))

\* the flag names and the values that are inserted
InsertNames == {W.a, W.b, W.us}
InsertValues == {W.x}

\* C30: flag placement independence.  Inserting a pair --name value, for a
\* name that argv does not have, anywhere but directly after a token that
\* begins with --, leaves the positional list and every other binding of
\* the parseArgs result unchanged, binds the name to the value, and leaves
\* the destructured command, subcommand and rest unchanged.
C30_FlagPlacement ==
  ParseReturned =>
    \A pos \in 0..Len(argv), name \in InsertNames \ FlagNames(argv), value \in InsertValues :
      (pos = 0 \/ ~startsWith(argv[pos])) =>
        LET p1 == parseArgs(argv)
            p2 == parseArgs(InsertPair(argv, pos, name, value))
        IN ~p1.threw =>
             /\ ~p2.threw
             /\ DOMAIN p2.obj = DOMAIN p1.obj \cup {name}
             /\ \A key \in DOMAIN p1.obj \ {name} : p2.obj[key] = p1.obj[key]
             /\ p2.obj[W.us] = p1.obj[W.us]
             /\ p2.obj[name] = JsStr(value)
             /\ destructure(p2.obj[W.us]) = destructure(p1.obj[W.us])

====
